---- MODULE Spec2Model ----
(***************************************************************************)
(* Backtesting engine of zaza: the round-trip trade simulator and its      *)
(* statistics (tools/backtesting/simulation.py), the signal detector and   *)
(* the forward returns (tools/backtesting/signals.py), the risk calculator *)
(* (tools/backtesting/risk.py) and the VaR / CVaR and return statistics it *)
(* uses (utils/models.py); the file cache (cache/store.py), the cached     *)
(* price history (api/yfinance_client.py) and the three tool handlers that *)
(* validate, look up the cache, fetch, compute and store.                  *)
(*                                                                         *)
(* Numbers: prices, volumes and percentages are integers (simulator prices *)
(* are in 1/1000 of the currency unit, returns in percent).  A comparison  *)
(* of two quotients is made by cross-multiplying, which is exact; a value  *)
(* the code rounds to d decimals is kept as an integer count of 10^-d; an  *)
(* exponential moving average is kept in fixed point, in units of          *)
(* 1/EmaScale, rounded down at each step.                                  *)
(* Bar indices are the code's 0-based positions: bar i of a sequence s is  *)
(* s[i + 1].  Where the code tests a float64 for being exactly 0 after     *)
(* sums of values that are not binary fractions, the significands are      *)
(* computed bit for bit.  Python values that pass through JSON are tagged  *)
(* records, and keys are built as strings.                                 *)
(***************************************************************************)
EXTENDS Integers, Sequences, FiniteSets, TLC

\* ------------------------------------------------------------------ bounds

\* Longest close series given to the simulator.
MaxBars == 4

\* Close prices of the simulator's series, in 1/1000 of the currency unit:
\* 1.000, 1.034 and 0.  0 is a legal float close.
Prices == {0, 1000, 1034}

\* An optional float: None is <<>>, a value x is <<x>>.
None == <<>>
Some(x) == <<x>>

\* Series given to the detector are as long as a warm-up plus or minus a few
\* bars: MaxTail bounds the bars past the warm-up.
MaxTail == 2

\* The close changes level MaxBack bars before the end at most.
MaxBack == 2

\* The second call drops at most MaxCut trailing bars.
MaxCut == 2

\* Longest return series given to the risk calculator.
MaxReturns == 3

\* One unit of an exponential moving average is 1/EmaScale.
EmaScale == 10000

\* Longest return series given to compute_var and compute_cvar with every
\* element chosen freely.
MaxVarShort == 5

\* Series given to _compute_forward_returns are as long as a horizon plus up
\* to MaxFwdTail bars.
MaxFwdTail == 2

\* Most signal indices given to _compute_forward_returns.
MaxSignals == 3

\* Longest trade list given to _compute_simulation_stats.
MaxTrades == 3

\* Longest return series given to _max_drawdown.
MaxDrawdownLen == 4

\* Most tool calls made one after the other.
MaxCalls == 2

\* (stop_loss_pct, take_profit_pct) configurations: the default stop loss with
\* and without a take profit, and thresholds of 0 that a pnl of 0 meets.
Thresholds == {<<5, None>>, <<5, Some(3)>>, <<0, None>>, <<0, Some(0)>>}

\* Single-period returns, in percent.
ReturnLevels == {-1, 0, 2}

VARIABLES
    \* _simulate_trades: arguments
    close,            \* df["Close"], a sequence of prices
    entry_indices,    \* bars on which the entry signal fired
    exit_indices,     \* bars on which the exit signal fired
    stop_loss_pct,
    take_profit_pct,
    \* _simulate_trades: locals
    i,                \* loop variable of "for i in range(len(df))"
    in_trade,
    entry_price,
    entry_idx,
    trades,
    pc,               \* "loop" | "done" | "raised"
    returned,         \* the returned list (<<>> until the return)
    \* _detect_signals: arguments and results of two calls
    df,               \* [Close, Low, Volume], three sequences of one length
    signal,           \* the signal kind
    sig_pc,           \* "call" | "detected" | "prefix" | "idle"
    sig_raised,       \* whether _detect_signals(df, signal) raised
    indices,          \* result of _detect_signals(df, signal)
    prefix_len,       \* m: the second call is on the first m bars of df
    prefix_indices,   \* result of _detect_signals(df.iloc[:m], signal)
    \* _compute_risk_metrics: arguments, locals and result fields
    returns,          \* asset returns, oldest first, in percent
    benchmark_returns,
    risk_pc,          \* "call" | "done" | "idle"
    r,                \* the asset returns paired with b
    b,                \* the benchmark returns paired with r
    beta,             \* None, or <<beta rounded to 4 decimals, in 1/10000>>
    alpha,            \* None, or <<alpha rounded to 6 decimals, in 1/1000000>>
    metrics,          \* the dict returned by _compute_risk_metrics
    \* compute_var / compute_cvar: arguments and results
    var_returns,      \* the return series, in 1/1000
    confidence,       \* in percent
    var_pc,           \* "call" | "done" | "idle"
    var_data,         \* the dict returned by compute_var, values in 1/1000000
    cvar_val,         \* the value returned by compute_cvar, in 1/1000000
    \* _compute_forward_returns: arguments, locals and result
    fwd_close,        \* df["Close"]
    signal_indices,
    fwd_pc,           \* "call" | "done" | "raised" | "idle"
    returns_by_horizon,
    all_returns,
    forward,          \* the dict returned
    \* _compute_simulation_stats: arguments, locals and result
    stat_trades,      \* the trade list (pnl_pct and days_held of each trade)
    stat_close,       \* df["Close"]
    stat_pc,          \* "call" | "done" | "raised" | "idle"
    equity,           \* the equity curve
    sim_stats,        \* the dict returned
    \* compute_return_stats(returns)["max_drawdown"]: argument and result
    dd_returns,       \* the return series, in 1/10
    dd_pc,            \* "call" | "done" | "idle"
    dd_result,        \* the max_drawdown field, in 1/10000
    \* FileCache and the tool handlers that use it
    cache_files,      \* the cache directory: what the file of each key holds
    clock,            \* time.time(), in seconds
    cache_op,         \* the last direct call on the cache and what it returned
    recent,           \* per key, what was last done to it
    tool_call,        \* the last tool call and its response
    successes,        \* per call arguments, the last result computed for them
    \* _compute_simulation_stats(trades, df)["sharpe_ratio"]: argument and result
    sharpe_trades,    \* the trade list, pnl_pct in 1/10 percent
    sharpe_pc,        \* "call" | "done" | "idle"
    sharpe_ratio      \* the sharpe_ratio field

simVars == <<close, entry_indices, exit_indices, stop_loss_pct, take_profit_pct,
             i, in_trade, entry_price, entry_idx, trades, pc, returned>>

sigVars == <<df, signal, sig_pc, sig_raised, indices, prefix_len, prefix_indices>>

riskVars == <<returns, benchmark_returns, risk_pc, r, b, beta, alpha, metrics>>

varVars == <<var_returns, confidence, var_pc, var_data, cvar_val>>

fwdVars == <<fwd_close, signal_indices, fwd_pc, returns_by_horizon, all_returns, forward>>

statVars == <<stat_trades, stat_close, stat_pc, equity, sim_stats>>

ddVars == <<dd_returns, dd_pc, dd_result>>

toolVars == <<cache_files, clock, cache_op, recent, tool_call, successes>>

sharpeVars == <<sharpe_trades, sharpe_pc, sharpe_ratio>>

vars == <<simVars, sigVars, riskVars, varVars, fwdVars, statVars, ddVars, toolVars,
          sharpeVars>>

\* ------------------------------------------------------------- arithmetic

Min(S) == CHOOSE x \in S : \A y \in S : x <= y

\* n / d rounded to the nearest integer, ties to even (Python's round), d > 0.
RoundDiv(n, d) ==
    LET q == (2 * n + d) \div (2 * d)
        tie == (2 * n + d) % (2 * d) = 0
    IN IF tie /\ q % 2 # 0 THEN q - 1 ELSE q

Abs(x) == IF x < 0 THEN -x ELSE x

Sign(x) == IF x > 0 THEN 1 ELSE IF x < 0 THEN -1 ELSE 0

RECURSIVE Pow(_, _)
Pow(x, k) == IF k = 0 THEN 1 ELSE x * Pow(x, k - 1)

RECURSIVE DivMod10(_, _, _)
\* <<q, rem>> with n * 10^k = q * d + rem and 0 <= rem < d (n >= 0, d > 0), by
\* long division: no intermediate value exceeds 10 * d.
DivMod10(n, d, k) ==
    IF k = 0 THEN <<n \div d, n % d>>
    ELSE LET p == DivMod10(n, d, k - 1)
         IN <<p[1] * 10 + (p[2] * 10) \div d, (p[2] * 10) % d>>

RECURSIVE FracLeq(_, _, _, _)
\* n1 / d1 <= n2 / d2 for n1, n2 >= 0 and d1, d2 > 0, by comparing the integer
\* parts and then the inverted remainders: no product is formed.
FracLeq(n1, d1, n2, d2) ==
    IF n1 \div d1 # n2 \div d2 THEN n1 \div d1 < n2 \div d2
    ELSE IF n1 % d1 = 0 THEN TRUE
    ELSE IF n2 % d2 = 0 THEN FALSE
    ELSE FracLeq(d2, n2 % d2, d1, n1 % d1)

\* round(n / d, k) as an integer count of 10^-k, ties to even, d > 0.
RoundScaled(n, d, k) ==
    LET p == DivMod10(Abs(n), d, k)
        up == 2 * p[2] > d \/ (2 * p[2] = d /\ p[1] % 2 = 1)
    IN Sign(n) * (IF up THEN p[1] + 1 ELSE p[1])

\* ------------------------------------------------------- _simulate_trades

CloseAt(k) == close[k + 1]

\* pnl_pct = (current_price - entry_price) / entry_price * 100, rounded to 4
\* decimals: an integer count of 1/10000 percent.
PnlPctE4(current_price, entry) == RoundDiv((current_price - entry) * 1000000, entry)

\* A variant of the stop-loss test with a strict comparison.
StopLossHitStrict(current_price, entry, sl) ==
    (current_price - entry) * 100 < -sl * entry

\* "pnl_pct <= -stop_loss_pct", entry > 0.
StopLossHit(current_price, entry, sl) ==
    (current_price - entry) * 100 <= -sl * entry

\* "take_profit_pct is not None and pnl_pct >= take_profit_pct", entry > 0.
TakeProfitHit(current_price, entry, tp) ==
    /\ tp # None
    /\ (current_price - entry) * 100 >= tp[1] * entry

\* A variant of the exit tests that looks at the exit signal first.
ExitReasonSignalFirst(k, current_price) ==
    IF k \in exit_indices THEN "signal"
    ELSE IF StopLossHit(current_price, entry_price, stop_loss_pct) THEN "stop_loss"
    ELSE IF TakeProfitHit(current_price, entry_price, take_profit_pct) THEN "take_profit"
    ELSE "none"

\* The reason the in-trade branch closes the position on bar k, "none" when
\* it stays open: stop loss, then take profit, then the exit signal.
ExitReason(k, current_price) ==
    IF StopLossHit(current_price, entry_price, stop_loss_pct) THEN "stop_loss"
    ELSE IF TakeProfitHit(current_price, entry_price, take_profit_pct) THEN "take_profit"
    ELSE IF k \in exit_indices THEN "signal"
    ELSE "none"

\* A variant of the entry test that forgets in_trade.
CanEnterWhileOpen(k) == k \in entry_indices

\* "if not in_trade and i in entry_indices"
CanEnter(k) == ~in_trade /\ k \in entry_indices

\* A variant without the "continue": the entry bar is evaluated for an exit.
BarAfterEntrySame(k) == k

\* The bar the loop looks at after the entry branch: "continue" ends the
\* iteration, so the entry bar is not evaluated for an exit.
BarAfterEntry(k) == k + 1

\* A variant that makes the entry test again on the closing bar.
BarAfterCloseSame(k) == k

\* The bar the loop looks at after a close: the entry test of the closing
\* iteration has already been made, so the next test is on the next bar.
BarAfterClose(k) == k + 1

\* round(price, 2): prices are in 1/1000, so to the nearest multiple of 10.
Round2(price) == RoundDiv(price, 10) * 10

TradeRecord(k, current_price, reason) ==
    [entry_idx   |-> entry_idx,
     exit_idx    |-> k,
     entry_price |-> Round2(entry_price),
     exit_price  |-> Round2(current_price),
     pnl_pct     |-> PnlPctE4(current_price, entry_price),
     exit_reason |-> reason,
     days_held   |-> k - entry_idx]

simInputs == <<close, entry_indices, exit_indices, stop_loss_pct, take_profit_pct>>

\* Bar 0 is never looked up in exit_indices (no position is open on it: lines
\* 41-47), so the exit sets are drawn from the bars after it.
SimInit ==
    /\ close \in UNION {[1..n -> Prices] : n \in 0..MaxBars}
    /\ entry_indices \in SUBSET (0..(Len(close) - 1))
    /\ exit_indices \in SUBSET (1..(Len(close) - 1))
    /\ \E th \in Thresholds : stop_loss_pct = th[1] /\ take_profit_pct = th[2]
    /\ i = 0
    /\ in_trade = FALSE
    /\ entry_price = 0
    /\ entry_idx = 0
    /\ trades = <<>>
    /\ pc = "loop"
    /\ returned = <<>>

\* Lines 41-45: flat, and the bar is in the entry set.
Enter ==
    /\ pc = "loop" /\ i < Len(close)
    /\ CanEnter(i)
    /\ entry_price' = CloseAt(i)
    /\ entry_idx' = i
    /\ in_trade' = TRUE
    /\ i' = BarAfterEntry(i)
    /\ UNCHANGED <<simInputs, trades, pc, returned, sigVars, riskVars, varVars, fwdVars, statVars, ddVars, toolVars, sharpeVars>>

\* Line 41 false and line 47 false: nothing to do on this bar.
Skip ==
    /\ pc = "loop" /\ i < Len(close)
    /\ ~CanEnter(i) /\ ~in_trade
    /\ i' = i + 1
    /\ UNCHANGED <<simInputs, in_trade, entry_price, entry_idx, trades, pc, returned, sigVars, riskVars, varVars, fwdVars, statVars, ddVars, toolVars, sharpeVars>>

\* Line 49 with entry_price = 0.0: float division raises ZeroDivisionError.
DivideByZero ==
    /\ pc = "loop" /\ i < Len(close)
    /\ ~CanEnter(i) /\ in_trade
    /\ entry_price = 0
    /\ pc' = "raised"
    /\ UNCHANGED <<simInputs, i, in_trade, entry_price, entry_idx, trades, returned, sigVars, riskVars, varVars, fwdVars, statVars, ddVars, toolVars, sharpeVars>>

\* Lines 52-90: the first exit test that holds closes the position.
CloseTrade ==
    /\ pc = "loop" /\ i < Len(close)
    /\ ~CanEnter(i) /\ in_trade
    /\ entry_price # 0
    /\ ExitReason(i, CloseAt(i)) # "none"
    /\ trades' = Append(trades, TradeRecord(i, CloseAt(i), ExitReason(i, CloseAt(i))))
    /\ in_trade' = FALSE
    /\ i' = BarAfterClose(i)
    /\ UNCHANGED <<simInputs, entry_price, entry_idx, pc, returned, sigVars, riskVars, varVars, fwdVars, statVars, ddVars, toolVars, sharpeVars>>

\* Lines 47-90 with no exit test true: the position stays open.
Hold ==
    /\ pc = "loop" /\ i < Len(close)
    /\ ~CanEnter(i) /\ in_trade
    /\ entry_price # 0
    /\ ExitReason(i, CloseAt(i)) = "none"
    /\ i' = i + 1
    /\ UNCHANGED <<simInputs, in_trade, entry_price, entry_idx, trades, pc, returned, sigVars, riskVars, varVars, fwdVars, statVars, ddVars, toolVars, sharpeVars>>

\* A variant of the return that closes an open position on the last bar.
ReturnValueForceClose ==
    IF in_trade /\ entry_price # 0 /\ entry_idx < Len(close) - 1
    THEN Append(trades, TradeRecord(Len(close) - 1, CloseAt(Len(close) - 1), "signal"))
    ELSE trades

\* Line 92: "return trades".
ReturnValue == trades

Return ==
    /\ pc = "loop" /\ i >= Len(close)
    /\ returned' = ReturnValue
    /\ pc' = "done"
    /\ UNCHANGED <<simInputs, i, in_trade, entry_price, entry_idx, trades, sigVars, riskVars, varVars, fwdVars, statVars, ddVars, toolVars, sharpeVars>>

SimNext == Enter \/ Skip \/ DivideByZero \/ CloseTrade \/ Hold \/ Return

SimIdle ==
    /\ close = <<>>
    /\ entry_indices = {}
    /\ exit_indices = {}
    /\ stop_loss_pct = 5
    /\ take_profit_pct = None
    /\ i = 0
    /\ in_trade = FALSE
    /\ entry_price = 0
    /\ entry_idx = 0
    /\ trades = <<>>
    /\ pc = "idle"
    /\ returned = <<>>

\* -------------------------------------------------------- _detect_signals

SUPPORTED_SIGNALS ==
    {"rsi_below_30", "rsi_above_70", "macd_crossover", "golden_cross",
     "death_cross", "bollinger_lower_touch", "volume_spike"}

\* A float that may be NaN: NaN is <<>>, a number x is <<x>>.
NaN == <<>>
IsNaN(v) == v = NaN

\* Bar k (0-based) of a column.
At(xs, k) == xs[k + 1]

RECURSIVE SumRange(_, _, _)
\* xs[lo] + ... + xs[hi], 0-based and inclusive (summed by halves).
SumRange(xs, lo, hi) ==
    IF lo > hi THEN 0
    ELSE IF lo = hi THEN At(xs, lo)
    ELSE LET mid == (lo + hi) \div 2
         IN SumRange(xs, lo, mid) + SumRange(xs, mid + 1, hi)

RECURSIVE SumSqRange(_, _, _)
SumSqRange(xs, lo, hi) ==
    IF lo > hi THEN 0
    ELSE IF lo = hi THEN At(xs, lo) * At(xs, lo)
    ELSE LET mid == (lo + hi) \div 2
         IN SumSqRange(xs, lo, mid) + SumSqRange(xs, mid + 1, hi)

\* One step of pandas ewm(adjust=False).mean() with alpha = num / den:
\* y[t] = (1 - alpha) y[t-1] + alpha x[t].
EwmStep(prev, x, num, den) == ((den - num) * prev + num * x) \div den

RECURSIVE EwmRange(_, _, _, _, _, _)
\* y[lo] .. y[hi] (1-based, lo <= hi) given prev = y[lo - 1]; the list is
\* built by halves, each half continuing from the last value of the one before.
EwmRange(prev, ys, lo, hi, num, den) ==
    IF lo = hi THEN <<EwmStep(prev, ys[lo], num, den)>>
    ELSE LET mid == (lo + hi) \div 2
             left == EwmRange(prev, ys, lo, mid, num, den)
         IN left \o EwmRange(left[Len(left)], ys, mid + 1, hi, num, den)

\* The whole series: y[0] = x[0].
Ewm(ys, num, den) ==
    IF Len(ys) = 0 THEN <<>>
    ELSE IF Len(ys) = 1 THEN <<ys[1]>>
    ELSE <<ys[1]>> \o EwmRange(ys[1], ys, 2, Len(ys), num, den)

Scaled(xs) == [k \in 1..Len(xs) |-> xs[k] * EmaScale]

\* close.diff(1) split into gains and losses; bar 0 has no difference: 0.0.
UpDirection(cl) ==
    [k \in 1..Len(cl) |-> IF k > 1 /\ cl[k] > cl[k - 1] THEN cl[k] - cl[k - 1] ELSE 0]

DownDirection(cl) ==
    [k \in 1..Len(cl) |-> IF k > 1 /\ cl[k] < cl[k - 1] THEN cl[k - 1] - cl[k] ELSE 0]

\* ta.momentum.RSIIndicator(close, window=14): Wilder averages of the gains and
\* losses, NaN on the first 13 bars (min_periods = 14).  The value is kept as
\* the pair of averages: rsi = 100 if emadn = 0, else 100 * emaup / (emaup + emadn).
RsiAverages(cl) ==
    LET emaup == Ewm(Scaled(UpDirection(cl)), 1, 14)
        emadn == Ewm(Scaled(DownDirection(cl)), 1, 14)
    IN [k \in 1..Len(cl) |-> IF k < 14 THEN NaN ELSE <<emaup[k], emadn[k]>>]

\* "rsi.iloc[i] < 30" and "rsi.iloc[i] > 70": a comparison with NaN is false.
RsiBelow(avgs, level) ==
    /\ ~IsNaN(avgs)
    /\ IF avgs[2] = 0 THEN 100 < level ELSE 100 * avgs[1] < level * (avgs[1] + avgs[2])

RsiAbove(avgs, level) ==
    /\ ~IsNaN(avgs)
    /\ IF avgs[2] = 0 THEN 100 > level ELSE 100 * avgs[1] > level * (avgs[1] + avgs[2])

\* ta.trend.MACD(close, 26, 12, 9).macd_diff(): EMA12 - EMA26 (NaN before bar
\* 25), minus its 9-span EMA started on bar 25 (NaN before bar 33).
MacdDiff(cl) ==
    LET fast == Ewm(Scaled(cl), 2, 13)
        slow == Ewm(Scaled(cl), 2, 27)
        macd == [k \in 1..Len(cl) |-> fast[k] - slow[k]]
        sign == IF Len(cl) <= 25 THEN <<>> ELSE Ewm(SubSeq(macd, 26, Len(cl)), 2, 10)
    IN [k \in 1..Len(cl) |-> IF k < 34 THEN NaN ELSE <<macd[k] - sign[k - 25]>>]

\* close.rolling(w).sum() on bar k: NaN until w bars are there.  The mean is
\* the sum over w.
RollingSum(xs, w, k) ==
    IF k < w - 1 THEN NaN ELSE <<SumRange(xs, k - w + 1, k)>>

\* Comparisons of sma50 with sma200 on the sums, s50 / 50 against s200 / 200;
\* a comparison with NaN is false.
SmaGreater(s50, s200) ==
    ~IsNaN(s50) /\ ~IsNaN(s200) /\ 200 * s50[1] > 50 * s200[1]
SmaLess(s50, s200) ==
    ~IsNaN(s50) /\ ~IsNaN(s200) /\ 200 * s50[1] < 50 * s200[1]
\* A level-triggered variant of the test on the bar before: any ordering.
SmaAnyOrder(s50, s200) ==
    ~IsNaN(s50) /\ ~IsNaN(s200)
SmaAtMost(s50, s200) ==
    ~IsNaN(s50) /\ ~IsNaN(s200) /\ 200 * s50[1] <= 50 * s200[1]
SmaAtLeast(s50, s200) ==
    ~IsNaN(s50) /\ ~IsNaN(s200) /\ 200 * s50[1] >= 50 * s200[1]

\* ta.volatility.BollingerBands(close, 20, 2).bollinger_lband() against the low:
\* low <= mavg - 2 * mstd, mstd the population deviation of the 20 closes.
\* With S the sum and Q the sum of squares of the window: mavg = S / 20,
\* mstd = sqrt(20 Q - S^2) / 20.  NaN until 20 bars are there.
LowTouchesLowerBand(cl, lo, k) ==
    /\ k >= 19
    /\ LET S == SumRange(cl, k - 19, k)
           Q == SumSqRange(cl, k - 19, k)
           gap == S - 20 * At(lo, k)
       IN gap >= 0 /\ 4 * (20 * Q - S * S) <= gap * gap

\* A look-ahead variant of the volume window: the whole column.
WholeVolume(vol, k) == vol

\* "vol.iloc[i - 20 : i]": the 20 bars before bar k.
TrailingVolume(vol, k) == SubSeq(vol, k - 20 + 1, k)

\* "avg_vol > 0 and vol.iloc[i] > 2 * avg_vol"
VolumeSpike(vol, k) ==
    LET w == TrailingVolume(vol, k)
        total == SumRange(w, 0, Len(w) - 1)
    IN total > 0 /\ At(vol, k) * Len(w) > 2 * total

\* A variant of the loop starts that begins the RSI scans one bar early.
LoopStartEarly(sig) ==
    CASE sig \in {"rsi_below_30", "rsi_above_70"} -> 13
      [] sig = "macd_crossover" -> 27
      [] sig \in {"golden_cross", "death_cross"} -> 200
      [] OTHER -> 20

\* The first bar of each branch's "for i in range(start, len(df))".
LoopStart(sig) ==
    CASE sig \in {"rsi_below_30", "rsi_above_70"} -> 14
      [] sig = "macd_crossover" -> 27
      [] sig \in {"golden_cross", "death_cross"} -> 200
      [] OTHER -> 20

\* The series each branch computes before its loop.
Indicator(d, sig) ==
    CASE sig \in {"rsi_below_30", "rsi_above_70"} -> RsiAverages(d.Close)
      [] sig = "macd_crossover" -> MacdDiff(d.Close)
      [] OTHER -> <<>>

\* The test each branch makes on bar k; ind is the branch's indicator series.
Qualifies(d, sig, ind, k) ==
    CASE sig = "rsi_below_30" -> RsiBelow(At(ind, k), 30)
      [] sig = "rsi_above_70" -> RsiAbove(At(ind, k), 70)
      [] sig = "macd_crossover" ->
            /\ ~IsNaN(At(ind, k)) /\ ~IsNaN(At(ind, k - 1))
            /\ At(ind, k)[1] > 0 /\ At(ind, k - 1)[1] <= 0
      [] sig = "golden_cross" ->
            /\ ~IsNaN(RollingSum(d.Close, 50, k))
            /\ ~IsNaN(RollingSum(d.Close, 200, k))
            /\ SmaGreater(RollingSum(d.Close, 50, k), RollingSum(d.Close, 200, k))
            /\ SmaAtMost(RollingSum(d.Close, 50, k - 1), RollingSum(d.Close, 200, k - 1))
      [] sig = "death_cross" ->
            /\ ~IsNaN(RollingSum(d.Close, 50, k))
            /\ ~IsNaN(RollingSum(d.Close, 200, k))
            /\ SmaLess(RollingSum(d.Close, 50, k), RollingSum(d.Close, 200, k))
            /\ SmaAtLeast(RollingSum(d.Close, 50, k - 1), RollingSum(d.Close, 200, k - 1))
      [] sig = "bollinger_lower_touch" -> LowTouchesLowerBand(d.Close, d.Low, k)
      [] sig = "volume_spike" -> VolumeSpike(d.Volume, k)

\* The loop of a branch: bars start .. n - 1 in order, appending those that
\* qualify.
Scan(start, n, d, sig, ind) ==
    LET Test(k) == Qualifies(d, sig, ind, k)
    IN SelectSeq([j \in 1..(n - start) |-> start + j - 1], Test)

\* _detect_signals(df, signal): no branch matches an unknown kind, and the
\* empty list is returned; there is no raise.
DetectSignals(d, sig) ==
    IF sig \in SUPPORTED_SIGNALS
    THEN LET ind == Indicator(d, sig)
         IN [raised |-> FALSE,
             indices |-> Scan(LoopStart(sig), Len(d.Close), d, sig, ind)]
    ELSE [raised |-> FALSE, indices |-> <<>>]

\* df.iloc[:m]
FirstBars(d, m) ==
    [Close |-> SubSeq(d.Close, 1, m), Low |-> SubSeq(d.Low, 1, m),
     Volume |-> SubSeq(d.Volume, 1, m)]

\* The series the detector is given: 100, stepping by 10 * dir on bar
\* n - back (and, with turn = 1, swinging to 30 * dir on the other side of
\* 100 on the bars after it), with a ripple of wob on odd bars; the low is wob
\* under the
\* close; the volume is base (10, or 0 for a series without trading), then 25
\* on the step bar and 100 after it.
CloseBar(k, n, back, dir, wob, turn) ==
    100 + (IF k < n - back THEN 0
           ELSE IF k = n - back \/ turn = 0 THEN 10 * dir
           ELSE -30 * dir)
        + wob * (k % 2)

VolumeBar(k, n, back, dir, base) ==
    IF dir = 0 \/ k < n - back THEN base
    ELSE IF k = n - back THEN 25 ELSE 100

Series(n, back, dir, wob, base, turn) ==
    [Close  |-> [k \in 1..n |-> CloseBar(k - 1, n, back, dir, wob, turn)],
     Low    |-> [k \in 1..n |-> CloseBar(k - 1, n, back, dir, wob, turn) - wob],
     Volume |-> [k \in 1..n |-> VolumeBar(k - 1, n, back, dir, base)]]

\* Lengths around each warm-up and around the first bar with a MACD histogram.
SeriesLengths ==
    {w + t : w \in {0, 14, 20, 27, 34, 200}, t \in (-1)..MaxTail} \cap Nat

SignalKinds == SUPPORTED_SIGNALS \cup {"rsi_below_20"}

SigIdle ==
    /\ df = [Close |-> <<>>, Low |-> <<>>, Volume |-> <<>>]
    /\ signal = "rsi_below_30"
    /\ sig_pc = "idle"
    /\ sig_raised = FALSE
    /\ indices = <<>>
    /\ prefix_len = 0
    /\ prefix_indices = <<>>

SigInit ==
    /\ df \in {Series(n, back, dir, wob, base, turn) :
                 n \in SeriesLengths, back \in 1..MaxBack,
                 dir \in {-1, 0, 1}, wob \in {0, 1}, base \in {0, 10},
                 turn \in {0, 1}}
    /\ signal \in SignalKinds
    /\ sig_pc = "call"
    /\ sig_raised = FALSE
    /\ indices = <<>>
    /\ prefix_len = 0
    /\ prefix_indices = <<>>

\* indices = _detect_signals(df, signal)
Detect ==
    /\ sig_pc = "call"
    /\ indices' = DetectSignals(df, signal).indices
    /\ sig_raised' = DetectSignals(df, signal).raised
    /\ sig_pc' = "detected"
    /\ UNCHANGED <<df, signal, prefix_len, prefix_indices, simVars, riskVars, varVars, fwdVars, statVars, ddVars, toolVars, sharpeVars>>

\* prefix_indices = _detect_signals(df.iloc[:m], signal), m bars from the front.
DetectPrefix ==
    /\ sig_pc = "detected"
    /\ \E cut \in 0..MaxCut :
          /\ cut <= Len(df.Close)
          /\ prefix_len' = Len(df.Close) - cut
          /\ prefix_indices' = DetectSignals(FirstBars(df, Len(df.Close) - cut), signal).indices
    /\ sig_pc' = "prefix"
    /\ UNCHANGED <<df, signal, sig_raised, indices, simVars, riskVars, varVars, fwdVars, statVars, ddVars, toolVars, sharpeVars>>

SigNext == Detect \/ DetectPrefix

\* ------------------------------------------ compute_var / compute_cvar

\* Returns given to compute_var and compute_cvar, in 1/1000: those of the
\* worked example 0.01, -0.02, 0.015, -0.01, 0.02.
VarLevels == <<-20, -10, 10, 15, 20>>

\* Confidence levels, in percent: the two the calculator is documented for,
\* and 0.5 and 1.0, for which 1 - confidence is exact in binary.
Confidences == {50, 95, 99, 100}

Range(xs) == {xs[k] : k \in 1..Len(xs)}

Count(xs, v) == Cardinality({k \in 1..Len(xs) : xs[k] = v})

RECURSIVE SortLevels(_, _)
\* The values of S in ascending order, each as often as it occurs in xs.
SortLevels(S, xs) ==
    IF S = {} THEN <<>>
    ELSE LET m == Min(S)
         IN [k \in 1..Count(xs, m) |-> m] \o SortLevels(S \ {m}, xs)

\* A variant that leaves the series in its order.
Unsorted(xs) == xs

\* np.sort(returns): ascending.
NpSort(xs) == SortLevels(Range(xs), xs)

\* "int(len(sorted_returns) * (1 - confidence))".  1 - 0.95 and 1 - 0.99 are
\* the floats 0.050000000000000044 and 0.010000000000000009, just above 5/100
\* and 1/100, so the truncated product is floor(n * (100 - c) / 100).
VarIndex(n, c) == (n * (100 - c)) \div 100

RECURSIVE IsqrtIn(_, _, _)
\* The largest q in lo .. hi with q * q <= x (lo * lo <= x).
IsqrtIn(x, lo, hi) ==
    IF lo = hi THEN lo
    ELSE LET mid == (lo + hi + 1) \div 2
         IN IF mid * mid <= x THEN IsqrtIn(x, mid, hi) ELSE IsqrtIn(x, lo, mid - 1)

\* The square root, rounded down.
Isqrt(x) == IsqrtIn(x, 0, 46340)

\* n * sum(x^2) - sum(x)^2: n^2 times the population variance.
Dispersion(xs) ==
    Len(xs) * SumSqRange(xs, 0, Len(xs) - 1)
        - SumRange(xs, 0, Len(xs) - 1) * SumRange(xs, 0, Len(xs) - 1)

\* "float(sorted_returns[idx]) if idx < len(sorted_returns) else 0.0"
HistoricalVar(xs, c) ==
    LET sorted_returns == NpSort(xs)
        idx == VarIndex(Len(sorted_returns), c)
    IN IF idx < Len(sorted_returns) THEN At(sorted_returns, idx) * 1000 ELSE 0

\* "np.mean(returns) - np.std(returns) * 1.645", whatever the confidence:
\* (1000 S - 1645 sqrt(D)) / n, the root taken to one decimal.
ParametricVar(xs, c) ==
    RoundDiv(10000 * SumRange(xs, 0, Len(xs) - 1) - 1645 * Isqrt(100 * Dispersion(xs)),
             10 * Len(xs))

\* compute_var(returns, confidence): both values rounded to 6 decimals.
ComputeVar(xs, c) ==
    [historical_var |-> HistoricalVar(xs, c), parametric_var |-> ParametricVar(xs, c)]

\* A variant of the tail that leaves the element at idx out.
CvarTailExclusive(sorted_returns, idx) ==
    SubSeq(sorted_returns, 1, IF idx <= Len(sorted_returns) THEN idx ELSE Len(sorted_returns))

\* "sorted_returns[: idx + 1]"
CvarTail(sorted_returns, idx) ==
    SubSeq(sorted_returns, 1,
           IF idx + 1 <= Len(sorted_returns) THEN idx + 1 ELSE Len(sorted_returns))

\* compute_cvar(returns, confidence):
\* "round(float(np.mean(tail)), 6) if len(tail) > 0 else 0.0"
ComputeCvar(xs, c) ==
    LET sorted_returns == NpSort(xs)
        idx == VarIndex(Len(sorted_returns), c)
        tail == CvarTail(sorted_returns, idx)
    IN IF Len(tail) > 0
       THEN RoundDiv(SumRange(tail, 0, Len(tail) - 1) * 1000, Len(tail))
       ELSE 0

\* Long series: n returns that walk through VarLevels from level a in steps
\* of s (s = 0 is a constant series); with low = 1 the first return is
\* -0.025, under every level.
VarPattern(n, a, s, low) ==
    [k \in 1..n |-> IF k = 1 /\ low = 1 THEN -25 ELSE VarLevels[((a + s * k) % 5) + 1]]

\* Lengths around the first index 1 at 95% (n = 20) and at 99% (n = 100).
VarLongLengths == {19, 20, 21, 99, 100, 101}

VarSeries ==
    UNION {[1..n -> Range(VarLevels)] : n \in 1..MaxVarShort}
        \cup {VarPattern(n, a, s, low) :
                  n \in VarLongLengths, a \in 0..4, s \in 0..2, low \in 0..1}

VarIdle ==
    /\ var_returns = <<>>
    /\ confidence = 95
    /\ var_pc = "idle"
    /\ var_data = [historical_var |-> 0, parametric_var |-> 0]
    /\ cvar_val = 0

VarInit ==
    /\ var_returns \in VarSeries
    /\ confidence \in Confidences
    /\ var_pc = "call"
    /\ var_data = [historical_var |-> 0, parametric_var |-> 0]
    /\ cvar_val = 0

\* var_data = compute_var(returns, confidence)
\* cvar_val = compute_cvar(returns, confidence)
ComputeVarCvar ==
    /\ var_pc = "call"
    /\ var_data' = ComputeVar(var_returns, confidence)
    /\ cvar_val' = ComputeCvar(var_returns, confidence)
    /\ var_pc' = "done"
    /\ UNCHANGED <<var_returns, confidence, simVars, sigVars, riskVars, fwdVars, statVars, ddVars, toolVars, sharpeVars>>

VarNext == ComputeVarCvar

\* -------------------------------------------------- _compute_risk_metrics

RECURSIVE SumSeq(_)
SumSeq(xs) == IF xs = <<>> THEN 0 ELSE xs[1] + SumSeq(Tail(xs))

RECURSIVE SumProd(_, _)
\* Sum of xs[k] * ys[k] over two lists of one length.
SumProd(xs, ys) == IF xs = <<>> THEN 0 ELSE xs[1] * ys[1] + SumProd(Tail(xs), Tail(ys))

\* "returns[-min_len:]": the most recent n elements.
LastN(xs, n) == SubSeq(xs, Len(xs) - n + 1, Len(xs))

\* "returns[:min_len]": the oldest n elements.
FirstN(xs, n) == SubSeq(xs, 1, n)

\* Lines 43-45: min_len = min(len(returns), len(benchmark_returns)) and the
\* slice of each series that is kept.
MinLen(xs, ys) == IF Len(xs) <= Len(ys) THEN Len(xs) ELSE Len(ys)

AlignedAsset(xs, ys) == FirstN(xs, MinLen(xs, ys))
AlignedBenchmark(xs, ys) == FirstN(ys, MinLen(xs, ys))

\* np.cov(r, b) times n (n - 1): [0, 1] is n sum(r b) - sum(r) sum(b) and
\* [1, 1] is n sum(b b) - sum(b)^2.  With n < 2 numpy divides 0 by 0 and every
\* entry is NaN, which is not > 0.
Cov01(xs, ys) == Len(xs) * SumProd(xs, ys) - SumSeq(xs) * SumSeq(ys)
Cov11(ys) == Len(ys) * SumProd(ys, ys) - SumSeq(ys) * SumSeq(ys)

\* Line 48: beta = round(cov[0, 1] / cov[1, 1], 4) if cov[1, 1] > 0 else None.
Beta(xs, ys) ==
    IF Len(ys) >= 2 /\ Cov11(ys) > 0
    THEN Some(RoundDiv(Cov01(xs, ys) * 10000, Cov11(ys)))
    ELSE None

\* A variant of alpha that takes an undefined beta for 0.
AlphaZeroBeta(xs, ys, bt) ==
    IF bt = None THEN Some(RoundDiv(SumSeq(xs) * 10000 * 252, Len(xs)))
    ELSE Some(RoundDiv((SumSeq(xs) * 10000 - bt[1] * SumSeq(ys)) * 252, Len(xs)))

\* Lines 50-55: alpha = round((mean(r) - beta * mean(b)) * 252, 6) when beta
\* is defined.  Returns are in percent and beta in 1/10000:
\* alpha * 10^6 = (sum(r) * 10^4 - beta * sum(b)) * 252 / n.
Alpha(xs, ys, bt) ==
    IF bt = None THEN None
    ELSE Some(RoundDiv((SumSeq(xs) * 10000 - bt[1] * SumSeq(ys)) * 252, Len(xs)))

\* A field of a result dict is None, NaN, a rounded number x (an integer count
\* of the rounding unit), or sign * sqrt(num / den) for a value that is a
\* square root of a rational.
NoneField == [tag |-> "none", val |-> <<>>]
NanField == [tag |-> "nan", val |-> <<>>]
NumField(x) == [tag |-> "num", val |-> <<x>>]
RootField(sign, num, den) == [tag |-> "root", val |-> <<sign, num, den>>]
FieldOf(opt) == IF opt = None THEN NoneField ELSE NumField(opt[1])

\* Line 33: std_ret = np.std(returns, ddof=1) is NaN for one observation, and
\* "std_ret > 0" is then false.  mean / std * sqrt(252) squared is
\* 252 S^2 (n - 1) / (n D), D = n sum(x^2) - S^2.
Sharpe(xs) ==
    LET n == Len(xs)
        S == SumSeq(xs)
        D == Dispersion(xs)
    IN IF n >= 2 /\ D > 0
       THEN RootField(Sign(S), 252 * S * S * (n - 1), n * D)
       ELSE NoneField

\* Line 36: returns[returns < 0]
Downside(xs) == LET Negative(x) == x < 0 IN SelectSeq(xs, Negative)

\* Lines 37-40: downside_std is 0.0 unless there are 2 negative returns or
\* more, and the ratio is None unless downside_std > 0.
Sortino(xs) ==
    LET n == Len(xs)
        S == SumSeq(xs)
        m == Len(Downside(xs))
        Dd == Dispersion(Downside(xs))
    IN IF m > 1 /\ Dd > 0
       THEN RootField(Sign(S), 252 * S * S * m * (m - 1), n * n * Dd)
       ELSE NoneField

\* Line 69: round(mean_ret * 252, 6), returns in percent.
AnnualizedReturn(xs) == NumField(RoundDiv(SumSeq(xs) * 2520000, Len(xs)))

\* Line 70: round(std_ret * np.sqrt(252), 6): NaN when std_ret is NaN.  The
\* value, in percent, is sqrt(252 D / (n (n - 1))).
AnnualizedVolatility(xs) ==
    LET n == Len(xs)
        D == Dispersion(xs)
    IN IF n < 2 THEN NanField ELSE RootField(Sign(D), 252 * D, n * (n - 1))

RECURSIVE Cumulative(_, _, _)
\* np.cumprod(1 + returns)[k - 1] times unit^n, for returns in 1/unit:
\* the product of unit + xs[j] over j <= k, times unit^(n - k).
Cumulative(xs, k, unit) ==
    IF k = 0 THEN Pow(unit, Len(xs))
    ELSE (Cumulative(xs, k - 1, unit) \div unit) * (unit + xs[k])

RECURSIVE RunningPeak(_, _, _)
\* np.maximum.accumulate(cumulative)[k - 1]: the curve has no point before
\* the first return.
RunningPeak(xs, k, unit) ==
    IF k = 1 THEN Cumulative(xs, 1, unit)
    ELSE LET before == RunningPeak(xs, k - 1, unit)
             here == Cumulative(xs, k, unit)
         IN IF here > before THEN here ELSE before

\* _max_drawdown(returns), rounded to 4 decimals as compute_return_stats does:
\* the largest (peak - cumulative) / peak.  A peak of 0 divides 0 by 0: that
\* entry is NaN, and so is np.max.  0.0 for an empty series.
MaxDrawdown(xs, unit) ==
    LET n == Len(xs)
        Peak(k) == RunningPeak(xs, k, unit)
        Drop(k) == RunningPeak(xs, k, unit) - Cumulative(xs, k, unit)
    IN IF n = 0 THEN NumField(0)
       ELSE IF \E k \in 1..n : Peak(k) = 0 THEN NanField
       ELSE LET worst == CHOOSE k \in 1..n :
                             \A j \in 1..n : FracLeq(Drop(j), Peak(j), Drop(k), Peak(k))
            IN NumField(RoundScaled(Drop(worst), Peak(worst), 4))

\* Sum of (n x - S)^p over the series: n^p times the sum of the p-th powers of
\* the deviations from the mean.
Moment(xs, p) ==
    LET n == Len(xs)
        S == SumSeq(xs)
        devs == [k \in 1..n |-> Pow(n * xs[k] - S, p)]
    IN SumSeq(devs)

\* scipy.stats.skew(returns), rounded to 4 decimals: m3 / m2^1.5, squared
\* n M3^2 / M2^3.  With m2 = 0 (one observation, or a constant series) the
\* result is NaN, or 0.0 with a SciPy that predates the NaN convention.
Skewness(xs, constant_is_nan) ==
    IF Moment(xs, 2) = 0
    THEN IF constant_is_nan THEN NanField ELSE NumField(0)
    ELSE RootField(Sign(Moment(xs, 3)),
                   Len(xs) * Moment(xs, 3) * Moment(xs, 3), Pow(Moment(xs, 2), 3))

\* scipy.stats.kurtosis(returns), rounded to 4 decimals: m4 / m2^2 - 3, that
\* is (n M4 - 3 M2^2) / M2^2; NaN or -3.0 with m2 = 0.
Kurtosis(xs, constant_is_nan) ==
    IF Moment(xs, 2) = 0
    THEN IF constant_is_nan THEN NanField ELSE NumField(-30000)
    ELSE NumField(RoundScaled(Len(xs) * Moment(xs, 4) - 3 * Moment(xs, 2) * Moment(xs, 2),
                              Moment(xs, 2) * Moment(xs, 2), 4))

\* Returns in percent as returns in 1/1000.
InThousandths(xs) == [k \in 1..Len(xs) |-> 10 * xs[k]]

\* Lines 58-73: the dict returned by _compute_risk_metrics.
RiskMetrics(xs, bt, al, constant_is_nan) ==
    [sharpe_ratio          |-> Sharpe(xs),
     sortino_ratio         |-> Sortino(xs),
     max_drawdown          |-> MaxDrawdown(xs, 100),
     beta                  |-> FieldOf(bt),
     alpha                 |-> FieldOf(al),
     var_95                |->
         [historical_var |-> NumField(ComputeVar(InThousandths(xs), 95).historical_var),
          parametric_var |-> NumField(ComputeVar(InThousandths(xs), 95).parametric_var)],
     cvar_95               |-> NumField(ComputeCvar(InThousandths(xs), 95)),
     annualized_return     |-> AnnualizedReturn(xs),
     annualized_volatility |-> AnnualizedVolatility(xs),
     skewness              |-> Skewness(xs, constant_is_nan),
     kurtosis              |-> Kurtosis(xs, constant_is_nan)]

\* No dict yet.
NoDict == <<>>

ReturnSeries == UNION {[1..n -> ReturnLevels] : n \in 1..MaxReturns}

RiskIdle ==
    /\ returns = <<>>
    /\ benchmark_returns = <<>>
    /\ risk_pc = "idle"
    /\ r = <<>>
    /\ b = <<>>
    /\ beta = None
    /\ alpha = None
    /\ metrics = NoDict

RiskInit ==
    /\ returns \in ReturnSeries
    /\ benchmark_returns \in ReturnSeries
    /\ risk_pc = "call"
    /\ r = <<>>
    /\ b = <<>>
    /\ beta = None
    /\ alpha = None
    /\ metrics = NoDict

\* metrics = _compute_risk_metrics(returns, benchmark_returns).  What
\* scipy.stats gives for a series without dispersion depends on the SciPy
\* installed.
ComputeRiskMetrics ==
    /\ risk_pc = "call"
    /\ r' = AlignedAsset(returns, benchmark_returns)
    /\ b' = AlignedBenchmark(returns, benchmark_returns)
    /\ beta' = Beta(r', b')
    /\ alpha' = Alpha(r', b', beta')
    /\ \E constant_is_nan \in BOOLEAN :
          metrics' = RiskMetrics(returns, beta', alpha', constant_is_nan)
    /\ risk_pc' = "done"
    /\ UNCHANGED <<returns, benchmark_returns, simVars, sigVars, varVars, fwdVars, statVars, ddVars, toolVars, sharpeVars>>

RiskNext == ComputeRiskMetrics

\* ----------------------------------------------- _compute_forward_returns

\* Closes of the series given to _compute_forward_returns.  A return
\* (exit - entry) / entry is kept as an integer count of 1/RetUnit, which is
\* exact: every positive close divides RetUnit.
FwdLevels == <<90, 100, 110>>
RetUnit == 90 * 110

\* "horizons = {"5d": 5, "20d": 20, "60d": 60}", in the dict's order.
Horizons == <<5, 20, 60>>

\* A variant of the horizon test that wants the longest horizon to fit.
FitsLongest(idx, days, n) == idx + 60 < n

\* Lines 119-120: "exit_idx = idx + days; if exit_idx < len(df)".
Fits(idx, days, n) == idx + days < n

\* Line 122 / 127: (exit_price - entry_price) / entry_price, entry_price > 0.
Ret(cl, idx, exit_idx) ==
    (At(cl, exit_idx) - At(cl, idx)) * (RetUnit \div At(cl, idx))

\* A variant of the last bar that uses 60 bars ahead or nothing.
MaxExitOnly60(idx, n) == IF idx + 60 < n THEN idx + 60 ELSE idx

\* Line 125: "max_exit = min(idx + 60, len(df) - 1)".
MaxExit(idx, n) == IF idx + 60 <= n - 1 THEN idx + 60 ELSE n - 1

RECURSIVE HorizonReturns(_, _, _)
\* returns_by_horizon[label] after the loop over sigs: one return for each
\* signal the horizon fits, in the order of the signals.
HorizonReturns(cl, sigs, days) ==
    IF sigs = <<>> THEN <<>>
    ELSE LET idx == sigs[Len(sigs)]
             before == HorizonReturns(cl, SubSeq(sigs, 1, Len(sigs) - 1), days)
         IN IF Fits(idx, days, Len(cl))
            THEN Append(before, Ret(cl, idx, idx + days))
            ELSE before

RECURSIVE AllReturns(_, _)
\* all_returns after the loop: the return to max_exit of each signal that has
\* a later bar.
AllReturns(cl, sigs) ==
    IF sigs = <<>> THEN <<>>
    ELSE LET idx == sigs[Len(sigs)]
             before == AllReturns(cl, SubSeq(sigs, 1, Len(sigs) - 1))
         IN IF MaxExit(idx, Len(cl)) > idx
            THEN Append(before, Ret(cl, idx, MaxExit(idx, Len(cl))))
            ELSE before

\* A division by entry_price = 0.0 is made for a signal on a bar with close 0
\* that has a horizon that fits or a later bar.
ForwardDivides(cl, sigs) ==
    \E k \in 1..Len(sigs) :
        /\ At(cl, sigs[k]) = 0
        /\ \/ \E h \in 1..3 : Fits(sigs[k], Horizons[h], Len(cl))
           \/ MaxExit(sigs[k], Len(cl)) > sigs[k]

Positive(xs) == LET Gain(x) == x > 0 IN SelectSeq(xs, Gain)

Max(S) == CHOOSE x \in S : \A y \in S : x >= y

\* Lines 134-140: round(wins / len(rets), 4), or None without returns.
WinRate(rets) ==
    IF rets # <<>> THEN Some(RoundScaled(Len(Positive(rets)), Len(rets), 4)) ELSE None

\* round(float(np.mean(rets)), 6), or None without returns.
AvgReturn(rets) ==
    IF rets # <<>> THEN Some(RoundScaled(SumSeq(rets), RetUnit * Len(rets), 6)) ELSE None

\* Lines 145-151: round(total_gain / total_loss, 4) if total_loss > 0.
ProfitFactor(rets) ==
    LET total_gain == SumSeq(Positive(rets))
        total_loss == -SumSeq(Downside(rets))
    IN IF total_loss > 0 THEN Some(RoundScaled(total_gain, total_loss, 4)) ELSE None

\* Lines 130-157: the dict returned.
ForwardResult(sigs, by_horizon, all) ==
    [total_signals  |-> Len(sigs),
     win_rate_5d    |-> WinRate(by_horizon[1]),
     avg_return_5d  |-> AvgReturn(by_horizon[1]),
     win_rate_20d   |-> WinRate(by_horizon[2]),
     avg_return_20d |-> AvgReturn(by_horizon[2]),
     win_rate_60d   |-> WinRate(by_horizon[3]),
     avg_return_60d |-> AvgReturn(by_horizon[3]),
     best_trade     |-> IF all # <<>> THEN Some(RoundScaled(Max(Range(all)), RetUnit, 6)) ELSE None,
     worst_trade    |-> IF all # <<>> THEN Some(RoundScaled(Min(Range(all)), RetUnit, 6)) ELSE None,
     profit_factor  |-> IF all # <<>> THEN ProfitFactor(all) ELSE None]

\* The series: n closes that walk through FwdLevels from level a, with a
\* close of 0 on bar zero_at (none for zero_at = -1).
FwdSeries(n, a, zero_at) ==
    [k \in 1..n |-> IF k - 1 = zero_at THEN 0 ELSE FwdLevels[((a + k) % 3) + 1]]

\* Lengths at each horizon and up to MaxFwdTail bars past it.
FwdLengths == {w + t : w \in {0, 5, 20, 60}, t \in 0..MaxFwdTail}

\* Signal bars: the first bars, and the last bars that each horizon fits or
\* just fails to fit.
SignalBars(n) == {0, 1, n - 62, n - 61, n - 22, n - 21, n - 7, n - 6, n - 2, n - 1} \cap (0..(n - 1))

RECURSIVE Ascending(_)
\* The elements of a set of bars, in ascending order.
Ascending(S) == IF S = {} THEN <<>> ELSE <<Min(S)>> \o Ascending(S \ {Min(S)})

FwdIdle ==
    /\ fwd_close = <<>>
    /\ signal_indices = <<>>
    /\ fwd_pc = "idle"
    /\ returns_by_horizon = <<<<>>, <<>>, <<>>>>
    /\ all_returns = <<>>
    /\ forward = NoDict

FwdInit ==
    /\ \E n \in FwdLengths, a \in 0..2 :
          /\ fwd_close \in {FwdSeries(n, a, z) : z \in {-1, 0, n - 1, n - 6}}
          /\ signal_indices \in
                 {Ascending(S) : S \in {T \in SUBSET SignalBars(n) : Cardinality(T) <= MaxSignals}}
    /\ fwd_pc = "call"
    /\ returns_by_horizon = <<<<>>, <<>>, <<>>>>
    /\ all_returns = <<>>
    /\ forward = NoDict

\* Line 122 or 127 with entry_price = 0.0: ZeroDivisionError.
ForwardDivideByZero ==
    /\ fwd_pc = "call"
    /\ ForwardDivides(fwd_close, signal_indices)
    /\ fwd_pc' = "raised"
    /\ UNCHANGED <<fwd_close, signal_indices, returns_by_horizon, all_returns, forward,
                   simVars, sigVars, riskVars, varVars, statVars, ddVars, toolVars, sharpeVars>>

\* forward = _compute_forward_returns(df, signal_indices)
ComputeForwardReturns ==
    /\ fwd_pc = "call"
    /\ ~ForwardDivides(fwd_close, signal_indices)
    /\ returns_by_horizon' =
           [h \in 1..3 |-> HorizonReturns(fwd_close, signal_indices, Horizons[h])]
    /\ all_returns' = AllReturns(fwd_close, signal_indices)
    /\ forward' = ForwardResult(signal_indices, returns_by_horizon', all_returns')
    /\ fwd_pc' = "done"
    /\ UNCHANGED <<fwd_close, signal_indices, simVars, sigVars, riskVars, varVars, statVars, ddVars, toolVars, sharpeVars>>

FwdNext == ForwardDivideByZero \/ ComputeForwardReturns

\* ------------------------------------------------------- float64 rounding

\* A float64 significand is kept as <<hi, lo>> for hi * 2^26 + lo with
\* 0 <= lo < 2^26: an integer count of the last place of the value at hand.
Limb == 67108864

Wide(hi, lo) == <<hi + lo \div Limb, lo % Limb>>

WideAdd(x, y) == Wide(x[1] + y[1], x[2] + y[2])

\* Round to nearest, halves to even: q steps and rem left over.
HalfEven(q, rem, step) ==
    IF 2 * rem > step \/ (2 * rem = step /\ q % 2 = 1) THEN q + 1 ELSE q

\* Rounding to 53 significant bits: counts of 2^53 and more keep only the
\* multiples of 2, of 2^54 and more those of 4, and so on.
Round53(x) ==
    LET step == IF x[1] < 2 * Limb THEN 1
                ELSE IF x[1] < 4 * Limb THEN 2
                ELSE IF x[1] < 8 * Limb THEN 4
                ELSE 8
    IN Wide(x[1], step * HalfEven(x[2] \div step, x[2] % step, step))

\* x / n correctly rounded, n a small integer and the quotient of 53 bits.
WideDiv(x, n) ==
    LET rest == (x[1] % n) * Limb + x[2]
    IN Wide(x[1] \div n, HalfEven(rest \div n, rest % n, n))

\* The significand of the float64 nearest to v / 10, v > 0.
DoubleOfTenths(v) ==
    LET j == CHOOSE j \in 0..30 : 10 * Limb <= v * Pow(2, j) /\ v * Pow(2, j) < 20 * Limb
    IN WideDiv(<<v * Pow(2, j), 0>>, 10)

RECURSIVE SumOfEqual(_, _)
\* np.add.reduce over n copies of x: added one by one, every sum rounded.
SumOfEqual(x, n) == IF n = 1 THEN x ELSE Round53(WideAdd(SumOfEqual(x, n - 1), x))

\* np.mean of n copies of x.
MeanOfEqual(x, n) == WideDiv(SumOfEqual(x, n), n)

\* ---------------------------------------------- _compute_simulation_stats

\* pnl_pct of a trade, in units of 10 percentage points: -90%, -50%, 0, 50%
\* and 100%.  Every one is above -100%, as closes above 0 make it.
PnlLevels == {-9, -5, 0, 5, 10}

\* days_held of a trade.
HeldLevels == {1, 3}

\* First and last close of the series.
StatPrices == {0, 1, 2, 4}

\* A variant of the curve that adds each pnl_pct to the equity.
EquityStepAdditive(last, p, n) == last + p * 10 * Pow(10, n)

\* Line 115: "equity[-1] * (1 + p / 100)".  The curve of n trades is kept in
\* units of 10^-n, so that every point is an integer.
EquityStep(last, p, n) == (last \div 10) * (10 + p)

RECURSIVE EquityCurve(_, _)
\* Lines 113-115: equity after the first k trades, starting from [100.0].
EquityCurve(ts, k) ==
    IF k = 0 THEN <<100 * Pow(10, Len(ts))>>
    ELSE LET before == EquityCurve(ts, k - 1)
         IN Append(before, EquityStep(before[Len(before)], ts[k].pnl_pct, Len(ts)))

RECURSIVE PeakAt(_, _)
\* np.maximum.accumulate(equity_arr)[k - 1]
PeakAt(eq, k) ==
    IF k = 1 THEN eq[1]
    ELSE IF eq[k] > PeakAt(eq, k - 1) THEN eq[k] ELSE PeakAt(eq, k - 1)

\* Lines 117-119 and 144: round(max((peak - equity) / peak * 100), 4), in
\* 1/10000 percent.
MaxDrawdownPct(eq) ==
    LET worst == CHOOSE k \in 1..Len(eq) :
                     \A j \in 1..Len(eq) :
                         FracLeq(PeakAt(eq, j) - eq[j], PeakAt(eq, j),
                                 PeakAt(eq, k) - eq[k], PeakAt(eq, k))
    IN RoundScaled(100 * (PeakAt(eq, worst) - eq[worst]), PeakAt(eq, worst), 4)

Pnls(ts) == [k \in 1..Len(ts) |-> ts[k].pnl_pct]

DaysHeld(ts) == [k \in 1..Len(ts) |-> ts[k].days_held]

\* One unit of PnlLevels is 10 percentage points: 100 tenths of a percent.
PnlTenths == 10 * 10

\* "np.std(pnl_arr) > 0".  Unequal values are 0.0001 or more apart and their
\* deviation is positive.  Of n equal values x the deviation is 0.0 when
\* np.mean gives x back and |mean - x| when the sum was rounded; the values
\* are xs[k] * tenths / 10.
NpStdPositive(xs, tenths) ==
    IF Dispersion(xs) > 0 THEN TRUE
    ELSE IF xs[1] = 0 THEN FALSE
    ELSE LET x == DoubleOfTenths(Abs(xs[1]) * tenths)
         IN MeanOfEqual(x, Len(xs)) # x

\* mean / std for a std that is the rounding error of the mean: a finite
\* number of magnitude 10^15 or more, of the sign of the mean.
ResidueField(sign) == [tag |-> "residue", val |-> <<sign>>]

\* Lines 122-131: None unless there are 2 trades or more and np.std(pnl_arr) > 0
\* (population deviation).  mean / std * sqrt(252 / max(avg_days_held, 1))
\* squared is 252 n S^2 / (D max(sum(days_held), n)).
SimSharpe(ts, tenths) ==
    LET n == Len(ts)
        S == SumSeq(Pnls(ts))
        D == Dispersion(Pnls(ts))
        held == SumSeq(DaysHeld(ts))
    IN IF n > 1 /\ NpStdPositive(Pnls(ts), tenths)
       THEN IF D > 0
            THEN RootField(Sign(S), 252 * n * S * S, D * (IF held > n THEN held ELSE n))
            ELSE ResidueField(Sign(S))
       ELSE NoneField

\* Lines 99-107: the dict returned for an empty trade list.
EmptyStats ==
    [total_trades     |-> NumField(0),
     win_rate         |-> NoneField,
     avg_pnl_pct      |-> NoneField,
     max_drawdown_pct |-> NoneField,
     sharpe_ratio     |-> NoneField,
     vs_buy_and_hold  |-> NoneField]

\* Lines 133-149: the dict returned for n >= 1 trades, first_price > 0.  Every
\* float is rounded to 4 decimals.
TradeStats(ts, cl, eq) ==
    LET n == Len(ts)
        scale == Pow(10, n)
        first_price == cl[1]
        last_price == cl[Len(cl)]
        gained == eq[Len(eq)] - 100 * scale
    IN [total_trades        |-> NumField(n),
        win_rate            |-> NumField(RoundScaled(Len(Positive(Pnls(ts))), n, 4)),
        avg_pnl_pct         |-> NumField(RoundScaled(10 * SumSeq(Pnls(ts)), n, 4)),
        max_drawdown_pct    |-> NumField(MaxDrawdownPct(eq)),
        sharpe_ratio        |-> SimSharpe(ts, PnlTenths),
        strategy_return_pct |-> NumField(RoundScaled(gained, scale, 4)),
        buy_hold_return_pct |->
            NumField(RoundScaled(100 * (last_price - first_price), first_price, 4)),
        vs_buy_and_hold     |->
            NumField(RoundScaled(gained * first_price
                                     - 100 * (last_price - first_price) * scale,
                                 scale * first_price, 4))]

StatTrades ==
    UNION {[1..n -> [pnl_pct : PnlLevels, days_held : HeldLevels]] : n \in 0..MaxTrades}

StatIdle ==
    /\ stat_trades = <<>>
    /\ stat_close = <<>>
    /\ stat_pc = "idle"
    /\ equity = <<>>
    /\ sim_stats = NoDict

StatInit ==
    /\ stat_trades \in StatTrades
    /\ stat_close \in [1..2 -> StatPrices]
    /\ stat_pc = "call"
    /\ equity = <<>>
    /\ sim_stats = NoDict

\* Lines 99-107: no trades.
ReturnEmptyStats ==
    /\ stat_pc = "call"
    /\ stat_trades = <<>>
    /\ sim_stats' = EmptyStats
    /\ stat_pc' = "done"
    /\ UNCHANGED <<stat_trades, stat_close, equity, simVars, sigVars, riskVars, varVars, fwdVars, ddVars, toolVars, sharpeVars>>

\* Line 136 with first_price = 0.0: ZeroDivisionError, after the curve is built.
StatsDivideByZero ==
    /\ stat_pc = "call"
    /\ stat_trades # <<>>
    /\ stat_close[1] = 0
    /\ equity' = EquityCurve(stat_trades, Len(stat_trades))
    /\ stat_pc' = "raised"
    /\ UNCHANGED <<stat_trades, stat_close, sim_stats, simVars, sigVars, riskVars, varVars, fwdVars, ddVars, toolVars, sharpeVars>>

\* Lines 109-149.
ComputeSimulationStats ==
    /\ stat_pc = "call"
    /\ stat_trades # <<>>
    /\ stat_close[1] # 0
    /\ equity' = EquityCurve(stat_trades, Len(stat_trades))
    /\ sim_stats' = TradeStats(stat_trades, stat_close, equity')
    /\ stat_pc' = "done"
    /\ UNCHANGED <<stat_trades, stat_close, simVars, sigVars, riskVars, varVars, fwdVars, ddVars, toolVars, sharpeVars>>

StatNext == ReturnEmptyStats \/ StatsDivideByZero \/ ComputeSimulationStats

\* ------------------------- _compute_simulation_stats: the sharpe_ratio field

\* pnl_pct of a trade, in 1/10 percent: -0.1, 0.0, 0.1 and 0.3.
SharpePnlLevels == {-1, 0, 1, 3}

SharpeTrades ==
    UNION {[1..n -> [pnl_pct : SharpePnlLevels, days_held : HeldLevels]] : n \in 0..MaxTrades}

\* _compute_simulation_stats(trades, df)["sharpe_ratio"], df["Close"].iloc[0]
\* not 0: lines 99-107 for no trades, lines 121-131 and 145 otherwise.
SharpeRatioOf(ts) == IF ts = <<>> THEN EmptyStats.sharpe_ratio ELSE SimSharpe(ts, 1)

SharpeIdle ==
    /\ sharpe_trades = <<>>
    /\ sharpe_pc = "idle"
    /\ sharpe_ratio = NoneField

SharpeInit ==
    /\ sharpe_trades \in SharpeTrades
    /\ sharpe_pc = "call"
    /\ sharpe_ratio = NoneField

ComputeSharpeRatio ==
    /\ sharpe_pc = "call"
    /\ sharpe_ratio' = SharpeRatioOf(sharpe_trades)
    /\ sharpe_pc' = "done"
    /\ UNCHANGED <<sharpe_trades, simVars, sigVars, riskVars, varVars, fwdVars, statVars, ddVars, toolVars>>

SharpeNext == ComputeSharpeRatio

\* ------------------------------------- compute_return_stats: max_drawdown

\* Single-period returns given to _max_drawdown, in units of 1/10: -1.0 (the
\* price falls to 0), -0.5, 0 and 1.0.
DrawdownLevels == {-10, -5, 0, 10}

DrawdownIdle ==
    /\ dd_returns = <<>>
    /\ dd_pc = "idle"
    /\ dd_result = NumField(0)

DrawdownInit ==
    /\ dd_returns \in UNION {[1..n -> DrawdownLevels] : n \in 1..MaxDrawdownLen}
    /\ dd_pc = "call"
    /\ dd_result = NumField(0)

\* stats = compute_return_stats(returns); stats["max_drawdown"]
ComputeMaxDrawdown ==
    /\ dd_pc = "call"
    /\ dd_result' = MaxDrawdown(dd_returns, 10)
    /\ dd_pc' = "done"
    /\ UNCHANGED <<dd_returns, simVars, sigVars, riskVars, varVars, fwdVars, statVars, toolVars, sharpeVars>>

DrawdownNext == ComputeMaxDrawdown


\* ------------------------------------------------------------ FileCache

\* CACHE_TTL (config.py), in seconds, for the categories used here; get falls
\* back to 3600 for a category that is not in the table.
CACHE_TTL(category) ==
    CASE category = "prices" -> 3600
      [] category = "options_chain" -> 1800
      [] category = "backtest_results" -> 86400
      [] category = "risk_metrics" -> 14400
      [] OTHER -> 3600

\* Python values: a tag t and a payload v.  A tuple and a list hold a sequence
\* of values, a dict a sequence of <<key, value>> pairs in insertion order.
PyNone == [t |-> "none", v |-> <<>>]
PyStr(s) == [t |-> "str", v |-> s]
PyInt(n) == [t |-> "int", v |-> n]
PyFloat(n) == [t |-> "float", v |-> n]
PyList(xs) == [t |-> "list", v |-> xs]
PyTuple(xs) == [t |-> "tuple", v |-> xs]
PyDict(kvs) == [t |-> "dict", v |-> kvs]

RECURSIVE JsonRoundTrip(_)
\* json.loads(json.dumps(x, default=str)): a tuple comes back as a list, the
\* other values used here come back as they were.
JsonRoundTrip(x) ==
    CASE x.t \in {"list", "tuple"} ->
            PyList([k \in 1..Len(x.v) |-> JsonRoundTrip(x.v[k])])
      [] x.t = "dict" ->
            PyDict([k \in 1..Len(x.v) |-> <<x.v[k][1], JsonRoundTrip(x.v[k][2])>>])
      [] OTHER -> x

\* What a cache file holds: nothing (no file), an entry written by set, or
\* content that did not come from set.
Entry(at, category, data) ==
    [kind |-> "entry", cached_at |-> at, category |-> category, data |-> data]
NoFile == [kind |-> "absent", cached_at |-> 0, category |-> "", data |-> PyNone]

\* Content that is not an entry: text that is not JSON, a JSON object without
\* "cached_at", a JSON value that is not an object (an array, null), and
\* bytes that are not text in the file encoding.
ForeignContents == {"not_json", "no_cached_at", "not_object", "not_text"}
Foreign(c) == [kind |-> c, cached_at |-> 0, category |-> "", data |-> PyNone]

\* A variant of the expiry test that expires an entry at the age of its TTL.
ExpiredAtTtl(now, at, category) == now - at >= CACHE_TTL(category)

\* "time.time() - raw['cached_at'] > ttl"
Expired(now, at, category) == now - at > CACHE_TTL(category)

\* FileCache.get(key, category) at time now on the file f: the value returned
\* (PyNone for None), whether the call raised, and the file afterwards.
\* json.loads raises JSONDecodeError and a missing key KeyError, both caught
\* with a removal; subscripting a non-object raises TypeError and decoding bad
\* bytes raises UnicodeDecodeError, neither of which the except clause names.
CacheGet(f, category, now) ==
    CASE f.kind = "absent" -> [ret |-> PyNone, raised |-> FALSE, file |-> f]
      [] f.kind \in {"not_json", "no_cached_at"} ->
            [ret |-> PyNone, raised |-> FALSE, file |-> NoFile]
      [] f.kind \in {"not_object", "not_text"} ->
            [ret |-> PyNone, raised |-> TRUE, file |-> f]
      [] f.kind = "entry" ->
            IF Expired(now, f.cached_at, category)
            THEN [ret |-> PyNone, raised |-> FALSE, file |-> NoFile]
            ELSE [ret |-> f.data, raised |-> FALSE, file |-> f]

\* FileCache.set(key, category, data) at time now: the file written.  What a
\* later json.loads gives back is kept, not the object passed in.
CacheSet(category, data, now) == Entry(now, category, JsonRoundTrip(data))

\* Keys, categories and data of the direct calls.  The third datum holds a
\* tuple.
CacheKeys == {"test_key", "other_key"}
CacheCategories == {"prices", "options_chain", "uncategorised"}
CacheData ==
    {PyDict(<<<<"price", PyFloat(150)>>>>),
     PyList(<<PyInt(1), PyNone>>),
     PyDict(<<<<"range", PyTuple(<<PyInt(1), PyInt(2)>>)>>>>)}

\* The times of the direct calls, in seconds: each TTL after the first call,
\* and one second more.
CacheInstants == {0, 1800, 1801, 3600, 3601}

\* The last call made on the cache.
CacheOp(op, key, category, ret, raised) ==
    [op |-> op, key |-> key, category |-> category, ret |-> ret, raised |-> raised]
NoOp == CacheOp("none", "", "", PyNone, FALSE)

\* What was last done to a key: nothing, a set of data at a time, an
\* invalidate, a get that found the entry older than its TTL, or a write that
\* did not come from set.
Recent(what, at, data) == [what |-> what, at |-> at, data |-> data]
NoRecent == Recent("nothing", 0, PyNone)

StoreIdle ==
    /\ cache_files = <<>>
    /\ clock = 0

\* No direct call is made on the cache.
CacheIdle ==
    /\ cache_op = <<>>
    /\ recent = <<>>

CacheInit ==
    /\ cache_files = [k \in CacheKeys |-> NoFile]
    /\ clock = 0
    /\ cache_op = NoOp
    /\ recent = [k \in CacheKeys |-> NoRecent]

\* cache.set(key, category, data)
Set ==
    \E key \in CacheKeys, category \in CacheCategories, data \in CacheData :
        /\ cache_files' = [cache_files EXCEPT ![key] = CacheSet(category, data, clock)]
        /\ recent' = [recent EXCEPT ![key] = Recent("set", clock, data)]
        /\ cache_op' = CacheOp("set", key, category, PyNone, FALSE)
        /\ UNCHANGED <<clock, tool_call, successes, simVars, sigVars, riskVars, varVars, fwdVars, statVars, ddVars, sharpeVars>>

\* cache.get(key, category)
Get ==
    \E key \in CacheKeys, category \in CacheCategories :
        LET got == CacheGet(cache_files[key], category, clock)
        IN /\ cache_files' = [cache_files EXCEPT ![key] = got.file]
           /\ recent' =
                 IF recent[key].what = "set" /\ clock - recent[key].at > CACHE_TTL(category)
                 THEN [recent EXCEPT ![key] = Recent("expired", 0, PyNone)]
                 ELSE recent
           /\ cache_op' = CacheOp("get", key, category, got.ret, got.raised)
           /\ UNCHANGED <<clock, tool_call, successes, simVars, sigVars, riskVars, varVars, fwdVars, statVars, ddVars, sharpeVars>>

\* cache.invalidate(key)
Invalidate ==
    \E key \in CacheKeys :
        /\ cache_files' = [cache_files EXCEPT ![key] = NoFile]
        /\ recent' = [recent EXCEPT ![key] = Recent("invalidated", 0, PyNone)]
        /\ cache_op' = CacheOp("invalidate", key, "", PyNone, FALSE)
        /\ UNCHANGED <<clock, tool_call, successes, simVars, sigVars, riskVars, varVars, fwdVars, statVars, ddVars, sharpeVars>>

\* Something other than set writes the file of a key (an interrupted write, a
\* damaged disk block, another program).
WriteForeign ==
    \E key \in CacheKeys, c \in ForeignContents :
        /\ cache_files' = [cache_files EXCEPT ![key] = Foreign(c)]
        /\ recent' = [recent EXCEPT ![key] = Recent("foreign", 0, PyNone)]
        /\ cache_op' = CacheOp("foreign", key, "", PyNone, FALSE)
        /\ UNCHANGED <<clock, tool_call, successes, simVars, sigVars, riskVars, varVars, fwdVars, statVars, ddVars, sharpeVars>>

\* time.time() moves on.
Advance ==
    \E t \in CacheInstants :
        /\ t > clock
        /\ clock' = t
        /\ cache_op' = CacheOp("advance", "", "", PyNone, FALSE)
        /\ UNCHANGED <<cache_files, recent, tool_call, successes, simVars, sigVars, riskVars, varVars, fwdVars, statVars, ddVars, sharpeVars>>

CacheNext == Set \/ Get \/ Invalidate \/ WriteForeign \/ Advance

\* ------------------------------------------------------- the tool handlers

\* Characters that re.sub(r'[^\w\-.]', '_', key) keeps.
KeptChars ==
    {SubSeq("abcdefghijklmnopqrstuvwxyzABCDEFGHIJKLMNOPQRSTUVWXYZ0123456789_-.", k, k) :
        k \in 1..65}

RECURSIVE Sanitize(_)
Sanitize(s) ==
    IF Len(s) = 0 THEN ""
    ELSE (IF SubSeq(s, 1, 1) \in KeptChars THEN SubSeq(s, 1, 1) ELSE "_")
         \o Sanitize(SubSeq(s, 2, Len(s)))

RECURSIVE Join(_)
\* "__".join(parts)
Join(parts) ==
    IF Len(parts) = 0 THEN ""
    ELSE IF Len(parts) = 1 THEN parts[1]
    ELSE parts[1] \o "__" \o Join(Tail(parts))

\* str(v) of a parameter that is not None: a string is itself, a float with
\* an integer value n is n followed by ".0", an int n is n.  Parameters are
\* given as <<>> for None and <<text>> otherwise.
Digit(d) == SubSeq("0123456789", d + 1, d + 1)
RECURSIVE StrInt(_)
StrInt(n) == IF n < 10 THEN Digit(n) ELSE StrInt(n \div 10) \o Digit(n % 10)
StrFloat(n) == StrInt(n) \o ".0"

\* FileCache.make_key(endpoint, **params): params is the sequence of the
\* parameters' texts in the order of their sorted names, None being <<>>.
MakeKey(endpoint, params) ==
    LET Given(p) == p # None
        given == SelectSeq(params, Given)
    IN Sanitize(Join(<<endpoint>> \o [k \in 1..Len(given) |-> given[k][1]]))

\* The arguments of a tool call; a field a tool does not have is "" or 0.
\* stop_loss_pct and take_profit_pct are floats with integer values.
SignalArgs(ticker, sig, years) ==
    [tool |-> "get_signal_backtest", ticker |-> ticker, signal |-> sig,
     exit_signal |-> "", stop_loss_pct |-> 0, take_profit_pct |-> None,
     lookback_years |-> years, benchmark |-> "", period |-> ""]
SimulationArgs(ticker, entry, exit, sl, tp) ==
    [tool |-> "get_strategy_simulation", ticker |-> ticker, signal |-> entry,
     exit_signal |-> exit, stop_loss_pct |-> sl, take_profit_pct |-> tp,
     lookback_years |-> 0, benchmark |-> "", period |-> ""]
RiskArgs(ticker, benchmark, period) ==
    [tool |-> "get_risk_metrics", ticker |-> ticker, signal |-> "",
     exit_signal |-> "", stop_loss_pct |-> 0, take_profit_pct |-> None,
     lookback_years |-> 0, benchmark |-> benchmark, period |-> period]
NoArgs == SignalArgs("", "", 0)

\* cache.make_key(...) of each handler, the parameters in the order of their
\* sorted names: signal, ticker, years; entry, exit, sl, ticker, tp;
\* benchmark, period, ticker.
CacheKey(a) ==
    CASE a.tool = "get_signal_backtest" ->
            MakeKey("signal_backtest",
                    <<Some(a.signal), Some(a.ticker), Some(StrInt(a.lookback_years))>>)
      [] a.tool = "get_strategy_simulation" ->
            MakeKey("strategy_sim",
                    <<Some(a.signal), Some(a.exit_signal), Some(StrFloat(a.stop_loss_pct)),
                      Some(a.ticker),
                      IF a.take_profit_pct = None THEN None
                      ELSE Some(StrFloat(a.take_profit_pct[1]))>>)
      [] a.tool = "get_risk_metrics" ->
            MakeKey("risk_metrics", <<Some(a.benchmark), Some(a.period), Some(a.ticker)>>)

Category(a) ==
    IF a.tool = "get_risk_metrics" THEN "risk_metrics" ELSE "backtest_results"

\* The period each handler asks the price history for.
HistoryPeriod(a) ==
    CASE a.tool = "get_signal_backtest" -> StrInt(a.lookback_years) \o "y"
      [] a.tool = "get_strategy_simulation" -> "5y"
      [] a.tool = "get_risk_metrics" -> a.period

\* YFinanceClient.get_history: the key of the records of (ticker, period);
\* start and end are None, interval is "1d".
HistoryKey(ticker, period) ==
    MakeKey("history", <<None, Some("1d"), Some(period), None, Some(ticker)>>)

\* Price records: a list of n bars, given by their closes.  zero marks a
\* history with a close of 0.0 on a bar the calculation divides by.
Bars(n, zero) == PyList([k \in 1..n |-> PyFloat(IF zero /\ k = 1 THEN 0 ELSE 100)])
HasZeroClose(records) == \E k \in 1..Len(records.v) : records.v[k].v = 0

\* Tickers asked for: an index ticker, the text it is sanitized to, and the
\* default benchmark.
ToolTickers == {"^GSPC", "_GSPC"}
Benchmarks == {"SPY"}

\* What the data provider has for a ticker when asked.  For the two backtest
\* tools: nothing, 11 bars, and 11 bars with a zero close; for the risk tool:
\* nothing, 10 bars (9 returns) and 11 bars (10 returns).
BacktestHistories == {Bars(0, FALSE), Bars(11, FALSE), Bars(11, TRUE)}
RiskHistories == {Bars(0, FALSE), Bars(10, FALSE), Bars(11, FALSE)}

\* The calls made: each ticker with supported kinds, with and without a take
\* profit, and one call for each way of giving an unsupported kind.
ToolCalls ==
    {SignalArgs(t, "golden_cross", 5) : t \in ToolTickers}
    \cup {SignalArgs("^GSPC", "rsi_below_20", 5)}
    \cup {SimulationArgs(t, "golden_cross", "death_cross", 5, tp) :
            t \in ToolTickers, tp \in {None, Some(3)}}
    \cup {SimulationArgs("^GSPC", "rsi_below_20", "death_cross", 5, None),
          SimulationArgs("^GSPC", "golden_cross", "rsi_below_20", 5, None)}
    \cup {RiskArgs(t, bm, "1y") : t \in ToolTickers, bm \in Benchmarks}

\* The cache key of each call.
CacheKeyOf == [a \in ToolCalls |-> CacheKey(a)]

\* The key of each ticker and period asked for.
HistoryKeys ==
    [t \in ToolTickers \cup Benchmarks |->
        [p \in {"5y", "1y"} |-> HistoryKey(t, p)]]

\* yf.get_history(ticker, period=period) on the cache files fs at time now,
\* fresh being what the provider has: the records returned, the files
\* afterwards, whether the provider was asked and whether cache.get raised.
\* Records are cached when there are some.
GetHistory(fs, ticker, period, now, fresh) ==
    LET key == HistoryKeys[ticker][period]
        got == CacheGet(fs[key], "prices", now)
    IN IF got.raised
       THEN [records |-> PyNone, files |-> fs, asked |-> FALSE, raised |-> TRUE]
       ELSE IF got.ret # PyNone
       THEN [records |-> got.ret, files |-> fs, asked |-> FALSE, raised |-> FALSE]
       ELSE [records |-> fresh,
             files |-> [fs EXCEPT ![key] =
                           IF Len(fresh.v) > 0 THEN CacheSet("prices", fresh, now)
                           ELSE got.file],
             asked |-> TRUE, raised |-> FALSE]

\* len(df["Close"].pct_change().dropna())
ReturnCount(records) == IF Len(records.v) = 0 THEN 0 ELSE Len(records.v) - 1

ErrorResponse(kind) == PyDict(<<<<"error", PyStr(kind)>>>>)
IsError(response) == response.t = "dict" /\ Len(response.v) = 1 /\ response.v[1][1] = "error"

\* The result dict of each handler: the arguments, then what was computed
\* from the records (given by the number of bars or of returns).
ResultOf(a, records) ==
    CASE a.tool = "get_signal_backtest" ->
            PyDict(<<<<"ticker", PyStr(a.ticker)>>, <<"signal", PyStr(a.signal)>>,
                     <<"lookback_years", PyInt(a.lookback_years)>>,
                     <<"data_points", PyInt(Len(records.v))>>>>)
      [] a.tool = "get_strategy_simulation" ->
            PyDict(<<<<"ticker", PyStr(a.ticker)>>, <<"entry_signal", PyStr(a.signal)>>,
                     <<"exit_signal", PyStr(a.exit_signal)>>,
                     <<"stop_loss_pct", PyFloat(a.stop_loss_pct)>>,
                     <<"take_profit_pct",
                       IF a.take_profit_pct = None THEN PyNone
                       ELSE PyFloat(a.take_profit_pct[1])>>>>)
      [] a.tool = "get_risk_metrics" ->
            PyDict(<<<<"ticker", PyStr(a.ticker)>>, <<"benchmark", PyStr(a.benchmark)>>,
                     <<"period", PyStr(a.period)>>,
                     <<"data_points", PyInt(ReturnCount(records))>>>>)

\* What a call did: its response (the JSON text, parsed), the cache files it
\* leaves, the number of yf.get_history calls, whether the calculator ran,
\* whether cache.set stored a result, and the lengths of the two return
\* series (-1 when not computed).  looked_up: the handler got as far as its
\* cache.get.
Outcome(response, fs, history_calls, computed, stored, nt, nb) ==
    [response |-> response, files |-> fs, history_calls |-> history_calls,
     computed |-> computed, stored |-> stored,
     ticker_returns |-> nt, benchmark_returns |-> nb, looked_up |-> TRUE]
Rejected(response, fs) ==
    [Outcome(response, fs, 0, FALSE, FALSE, -1, -1) EXCEPT !.looked_up = FALSE]

\* "if len(ticker_returns) < 10"
TooFew(nt, nb) == nt < 10

\* A variant of the validation that accepts every kind.
UnsupportedNever(a) == FALSE

\* "if signal not in SUPPORTED_SIGNALS" / the loop over entry_signal and
\* exit_signal; get_risk_metrics has no signal.
Unsupported(a) ==
    CASE a.tool = "get_signal_backtest" -> a.signal \notin SUPPORTED_SIGNALS
      [] a.tool = "get_strategy_simulation" ->
            a.signal \notin SUPPORTED_SIGNALS \/ a.exit_signal \notin SUPPORTED_SIGNALS
      [] OTHER -> FALSE

\* The body of get_signal_backtest and of get_strategy_simulation after the
\* cache miss: history, calculation, cache.set.  On a history with a zero
\* close the calculation raises ZeroDivisionError, which the handler's except
\* answers.
ComputeBacktest(a, fs, now, fresh) ==
    LET h == GetHistory(fs, a.ticker, HistoryPeriod(a), now, fresh)
        result == ResultOf(a, h.records)
    IN IF h.raised
       THEN Outcome(ErrorResponse("exception"), h.files, 1, FALSE, FALSE, -1, -1)
       ELSE IF Len(h.records.v) = 0
       THEN Outcome(ErrorResponse("no_data"), h.files, 1, FALSE, FALSE, -1, -1)
       ELSE IF HasZeroClose(h.records)
       THEN Outcome(ErrorResponse("exception"), h.files, 1, TRUE, FALSE, -1, -1)
       ELSE Outcome(JsonRoundTrip(result),
                    [h.files EXCEPT ![CacheKeyOf[a]] = CacheSet(Category(a), result, now)],
                    1, TRUE, TRUE, -1, -1)

\* The body of get_risk_metrics after the cache miss.
ComputeRisk(a, fs, now, fresh, fresh_benchmark) ==
    LET ht == GetHistory(fs, a.ticker, a.period, now, fresh)
        hb == GetHistory(ht.files, a.benchmark, a.period, now, fresh_benchmark)
        nt == ReturnCount(ht.records)
        nb == ReturnCount(hb.records)
        result == ResultOf(a, ht.records)
    IN IF ht.raised
       THEN Outcome(ErrorResponse("exception"), ht.files, 1, FALSE, FALSE, -1, -1)
       ELSE IF Len(ht.records.v) = 0
       THEN Outcome(ErrorResponse("no_data"), ht.files, 1, FALSE, FALSE, -1, -1)
       ELSE IF hb.raised
       THEN Outcome(ErrorResponse("exception"), hb.files, 2, FALSE, FALSE, -1, -1)
       ELSE IF Len(hb.records.v) = 0
       THEN Outcome(ErrorResponse("no_data"), hb.files, 2, FALSE, FALSE, -1, -1)
       ELSE IF TooFew(nt, nb)
       THEN Outcome(ErrorResponse("insufficient"), hb.files, 2, FALSE, FALSE, nt, nb)
       ELSE Outcome(JsonRoundTrip(result),
                    [hb.files EXCEPT ![CacheKeyOf[a]] = CacheSet(Category(a), result, now)],
                    2, TRUE, TRUE, nt, nb)

\* A tool handler from its try to its return.
Handle(a, fs, now, fresh, fresh_benchmark) ==
    IF Unsupported(a)
    THEN Rejected(ErrorResponse("unsupported"), fs)
    ELSE LET key == CacheKeyOf[a]
             got == CacheGet(fs[key], Category(a), now)
             missed == [fs EXCEPT ![key] = got.file]
         IN IF got.raised
            THEN Outcome(ErrorResponse("exception"), fs, 0, FALSE, FALSE, -1, -1)
            ELSE IF got.ret # PyNone
            THEN Outcome(JsonRoundTrip(got.ret), fs, 0, FALSE, FALSE, -1, -1)
            ELSE IF a.tool = "get_risk_metrics"
            THEN ComputeRisk(a, missed, now, fresh, fresh_benchmark)
            ELSE ComputeBacktest(a, missed, now, fresh)

\* The files the calls can touch.
ToolKeys ==
    {CacheKeyOf[a] : a \in ToolCalls}
    \cup {HistoryKeys[t][p] : t \in ToolTickers \cup Benchmarks, p \in {"5y", "1y"}}

\* The times of the calls, in seconds: each TTL after the first call, and one
\* second more.
ToolInstants == {0, 14400, 14401, 86400, 86401}

\* The last tool call: its number, its arguments, the time, and what it did.
ToolCall(n, a, now, out) ==
    [number |-> n, args |-> a, at |-> now, response |-> out.response,
     history_calls |-> out.history_calls, computed |-> out.computed,
     stored |-> out.stored, ticker_returns |-> out.ticker_returns,
     benchmark_returns |-> out.benchmark_returns, looked_up |-> out.looked_up]
NoCall(n) ==
    ToolCall(n, NoArgs, 0, Rejected(PyNone, <<>>))

\* The last result a call with given arguments computed and stored.
Success(at, result) == [at |-> at, result |-> result]
NoSuccess == Success(-1, PyNone)

\* No handler is registered: there is no call to speak of.
ToolIdle ==
    /\ tool_call = <<>>
    /\ successes = <<>>

ToolInit ==
    /\ cache_files = [k \in ToolKeys |-> NoFile]
    /\ clock = 0
    /\ tool_call = NoCall(0)
    /\ successes = [a \in ToolCalls |-> NoSuccess]

\* One call of a handler, from the request to the response.
Call(a, fresh, fresh_benchmark) ==
    LET out == Handle(a, cache_files, clock, fresh, fresh_benchmark)
    IN /\ tool_call.number < MaxCalls
       /\ cache_files' = out.files
       /\ tool_call' = ToolCall(tool_call.number + 1, a, clock, out)
       /\ successes' =
             IF out.stored THEN [successes EXCEPT ![a] = Success(clock, out.response)]
             ELSE successes
       /\ UNCHANGED <<clock, cache_op, recent, simVars, sigVars, riskVars, varVars, fwdVars, statVars, ddVars, sharpeVars>>

GetSignalBacktest ==
    \E a \in ToolCalls, fresh \in BacktestHistories :
        a.tool = "get_signal_backtest" /\ Call(a, fresh, fresh)

GetStrategySimulation ==
    \E a \in ToolCalls, fresh \in BacktestHistories :
        a.tool = "get_strategy_simulation" /\ Call(a, fresh, fresh)

GetRiskMetrics ==
    \E a \in ToolCalls, fresh \in RiskHistories, fresh_benchmark \in RiskHistories :
        a.tool = "get_risk_metrics" /\ Call(a, fresh, fresh_benchmark)

\* time.time() moves on between two calls.
ToolAdvance ==
    \E t \in ToolInstants :
        /\ t > clock
        /\ clock' = t
        /\ tool_call' = NoCall(tool_call.number)
        /\ UNCHANGED <<cache_files, successes, cache_op, recent, simVars, sigVars, riskVars, varVars, fwdVars, statVars, ddVars, sharpeVars>>

ToolNext == GetSignalBacktest \/ GetStrategySimulation \/ GetRiskMetrics \/ ToolAdvance

\* The calls that a specification does not make.
OthersIdle ==
    VarIdle /\ FwdIdle /\ StatIdle /\ DrawdownIdle /\ StoreIdle /\ CacheIdle /\ ToolIdle /\ SharpeIdle

Init == SimInit /\ SigIdle /\ RiskIdle /\ OthersIdle

Next == SimNext

Spec == Init /\ [][Next]_vars

InitSignals == SigInit /\ SimIdle /\ RiskIdle /\ OthersIdle

SpecSignals == InitSignals /\ [][SigNext]_vars

InitRisk == RiskInit /\ SimIdle /\ SigIdle /\ OthersIdle

SpecRisk == InitRisk /\ [][RiskNext]_vars

InitVar == VarInit /\ SimIdle /\ SigIdle /\ RiskIdle /\ FwdIdle /\ StatIdle /\ DrawdownIdle /\ StoreIdle /\ CacheIdle /\ ToolIdle /\ SharpeIdle

SpecVar == InitVar /\ [][VarNext]_vars

InitForward == FwdInit /\ SimIdle /\ SigIdle /\ RiskIdle /\ VarIdle /\ StatIdle /\ DrawdownIdle /\ StoreIdle /\ CacheIdle /\ ToolIdle /\ SharpeIdle

SpecForward == InitForward /\ [][FwdNext]_vars

InitStats == StatInit /\ SimIdle /\ SigIdle /\ RiskIdle /\ VarIdle /\ FwdIdle /\ DrawdownIdle /\ StoreIdle /\ CacheIdle /\ ToolIdle /\ SharpeIdle

SpecStats == InitStats /\ [][StatNext]_vars

InitDrawdown == DrawdownInit /\ SimIdle /\ SigIdle /\ RiskIdle /\ VarIdle /\ FwdIdle /\ StatIdle /\ StoreIdle /\ CacheIdle /\ ToolIdle /\ SharpeIdle

SpecDrawdown == InitDrawdown /\ [][DrawdownNext]_vars

InitCache ==
    /\ CacheInit /\ ToolIdle
    /\ SimIdle /\ SigIdle /\ RiskIdle /\ VarIdle /\ FwdIdle /\ StatIdle /\ DrawdownIdle /\ SharpeIdle

SpecCache == InitCache /\ [][CacheNext]_vars

InitTools ==
    /\ ToolInit /\ CacheIdle
    /\ SimIdle /\ SigIdle /\ RiskIdle /\ VarIdle /\ FwdIdle /\ StatIdle /\ DrawdownIdle /\ SharpeIdle

SpecTools == InitTools /\ [][ToolNext]_vars

InitSharpe ==
    /\ SharpeInit /\ StoreIdle /\ CacheIdle /\ ToolIdle
    /\ SimIdle /\ SigIdle /\ RiskIdle /\ VarIdle /\ FwdIdle /\ StatIdle /\ DrawdownIdle

SpecSharpe == InitSharpe /\ [][SharpeNext]_vars

\* ------------------------------------------------ claims: _simulate_trades

\* Bars the loop has finished with.
BarsSeen == IF pc = "done" THEN Len(close) ELSE i

\* The exit conditions of the specification for a position entered on bar e,
\* evaluated on bar k: stop loss, take profit (if configured), exit signal.
SpecStopLoss(e, k) ==
    (close[k + 1] - close[e + 1]) * 100 <= -stop_loss_pct * close[e + 1]

SpecTakeProfit(e, k) ==
    /\ take_profit_pct # None
    /\ (close[k + 1] - close[e + 1]) * 100 >= take_profit_pct[1] * close[e + 1]

SpecAnyExit(e, k) == SpecStopLoss(e, k) \/ SpecTakeProfit(e, k) \/ k \in exit_indices

\* The positions opened so far, in order: one per trade, and the open one.
OpenedPositions ==
    [k \in 1..Len(trades) |-> trades[k].entry_idx]
        \o (IF in_trade THEN <<entry_idx>> ELSE <<>>)

\* C1: the trade list is in time order and consecutive trades never share a
\* bar: trades[k].exit_idx < trades[k+1].entry_idx, in the list being built
\* and in the list returned.
C1_NonOverlap ==
    /\ \A k \in 1..(Len(trades) - 1) : trades[k].exit_idx < trades[k + 1].entry_idx
    /\ \A k \in 1..(Len(returned) - 1) :
           returned[k].exit_idx < returned[k + 1].entry_idx

\* C1 witness: two trades were returned, the bar that closed the first was
\* itself an entry bar, and the second was opened on the very next bar.
C1_Witness ==
    /\ pc = "done"
    /\ Len(returned) >= 2
    /\ returned[1].exit_idx \in entry_indices
    /\ returned[2].entry_idx = returned[1].exit_idx + 1

\* C2: every trade has entry_idx < exit_idx and
\* days_held = exit_idx - entry_idx >= 1.
C2_EntryBeforeExit ==
    \A k \in 1..Len(trades) :
        /\ trades[k].entry_idx < trades[k].exit_idx
        /\ trades[k].days_held = trades[k].exit_idx - trades[k].entry_idx
        /\ trades[k].days_held >= 1

\* C2 witness: a trade was returned whose entry bar is in the exit set, with
\* stop_loss_pct = 0 and take_profit_pct = 0, so that every exit test would
\* have held on the entry bar itself.
C2_Witness ==
    /\ pc = "done"
    /\ stop_loss_pct = 0
    /\ take_profit_pct = Some(0)
    /\ \E k \in 1..Len(returned) : returned[k].entry_idx \in exit_indices

\* C3: the exit reason of every trade follows the priority stop loss, take
\* profit, signal on the closing bar.
C3_ExitPriority ==
    \A k \in 1..Len(trades) :
        LET t == trades[k]
            sl == SpecStopLoss(t.entry_idx, t.exit_idx)
            tp == SpecTakeProfit(t.entry_idx, t.exit_idx)
            sg == t.exit_idx \in exit_indices
        IN /\ (t.exit_reason = "stop_loss") <=> sl
           /\ (t.exit_reason = "take_profit") <=> (~sl /\ tp)
           /\ (t.exit_reason = "signal") <=> (~sl /\ ~tp /\ sg)

\* C3 witness: a bar that met the stop loss, the take profit and the exit
\* signal at once closed a trade.
C3_Witness ==
    /\ pc = "done"
    /\ \E k \in 1..Len(returned) :
          /\ SpecStopLoss(returned[k].entry_idx, returned[k].exit_idx)
          /\ SpecTakeProfit(returned[k].entry_idx, returned[k].exit_idx)
          /\ returned[k].exit_idx \in exit_indices

\* C4 as stated: a position is closed on the first bar after its entry on
\* which any exit condition holds: the closing bar meets one, no bar in
\* between met any, a position still open has met none so far, and
\* entry_price and exit_price are the closes of the entry and exit bars.
C4_FirstExitBarExactPrices ==
    /\ \A k \in 1..Len(trades) :
           LET t == trades[k] IN
           /\ SpecAnyExit(t.entry_idx, t.exit_idx)
           /\ \A j \in (t.entry_idx + 1)..(t.exit_idx - 1) : ~SpecAnyExit(t.entry_idx, j)
           /\ t.entry_price = close[t.entry_idx + 1]
           /\ t.exit_price = close[t.exit_idx + 1]
    /\ (in_trade /\ pc # "raised" /\ entry_price # 0) =>
           \A j \in (entry_idx + 1)..(BarsSeen - 1) : ~SpecAnyExit(entry_idx, j)

\* The nearest multiples of 1/100 to a price p in 1/1000 (both, on a tie).
IsRounded2(q, p) == q % 10 = 0 /\ -5 <= q - p /\ q - p <= 5

\* C4 (amended): the same, with entry_price and exit_price the closes of the
\* entry and exit bars rounded to 2 decimals.
C4_FirstExitBar ==
    /\ \A k \in 1..Len(trades) :
           LET t == trades[k] IN
           /\ SpecAnyExit(t.entry_idx, t.exit_idx)
           /\ \A j \in (t.entry_idx + 1)..(t.exit_idx - 1) : ~SpecAnyExit(t.entry_idx, j)
           /\ IsRounded2(t.entry_price, close[t.entry_idx + 1])
           /\ IsRounded2(t.exit_price, close[t.exit_idx + 1])
    /\ (in_trade /\ pc # "raised" /\ entry_price # 0) =>
           \A j \in (entry_idx + 1)..(BarsSeen - 1) : ~SpecAnyExit(entry_idx, j)

\* C4 witness: a take-profit trade held for more than one bar, entered at
\* 1.000 and closed at 1.034 with take_profit_pct = 3 (pnl_pct 3.4), after a
\* bar that met no exit condition.
C4_Witness ==
    /\ pc = "done"
    /\ \E k \in 1..Len(returned) :
          /\ returned[k].exit_reason = "take_profit"
          /\ returned[k].days_held >= 2
          /\ returned[k].pnl_pct = 34000
          /\ close[returned[k].exit_idx + 1] = 1034

\* C5: at most one position is open; the positions opened are the smallest
\* entry index, and after each close the smallest entry index after the
\* closing bar; none is opened outside the entry set.
C5_OnePositionAtATime ==
    LET seenEntries == {x \in entry_indices : x < BarsSeen}
        ops == OpenedPositions
    IN /\ \A k \in 1..Len(ops) : ops[k] \in entry_indices
       /\ IF seenEntries = {} THEN ops = <<>>
          ELSE Len(ops) >= 1 /\ ops[1] = Min(seenEntries)
       /\ \A k \in 1..Len(trades) :
              LET later == {x \in seenEntries : x > trades[k].exit_idx}
              IN IF later = {} THEN Len(ops) = k
                 ELSE Len(ops) > k /\ ops[k + 1] = Min(later)

\* C5 witness: an entry fired while a position was open (and was ignored),
\* and a later position is left open at the end.
C5_Witness ==
    /\ pc = "done"
    /\ Len(returned) >= 1
    /\ in_trade
    /\ \E x \in entry_indices :
          returned[1].entry_idx < x /\ x < returned[1].exit_idx

\* C6: a position still open after the last bar gives no trade record: the
\* returned list holds exactly the positions closed by an exit condition,
\* each closed on a bar that met one.
C6_OpenPositionDiscarded ==
    pc = "done" =>
        /\ Len(returned) = Len(trades)
        /\ \A k \in 1..Len(returned) :
               /\ returned[k].exit_reason \in {"stop_loss", "take_profit", "signal"}
               /\ SpecAnyExit(returned[k].entry_idx, returned[k].exit_idx)
        /\ in_trade => \A k \in 1..Len(returned) : returned[k].entry_idx # entry_idx

\* C6 witness: the series ended with a position open that no later bar
\* closed, after an earlier trade was closed.
C6_Witness ==
    /\ pc = "done"
    /\ in_trade
    /\ entry_idx < Len(close) - 1
    /\ Len(returned) >= 1

\* ------------------------------------------------- claims: _detect_signals

\* The warm-up of each kind as the specification gives it.
SpecWarmUp(sig) ==
    CASE sig \in {"rsi_below_30", "rsi_above_70"} -> 14
      [] sig = "macd_crossover" -> 27
      [] sig \in {"golden_cross", "death_cross"} -> 200
      [] sig \in {"bollinger_lower_touch", "volume_spike"} -> 20

Below(seq, m) == LET Under(k) == k < m IN SelectSeq(seq, Under)

\* C7: no look-ahead: the indices below m found on the whole series are
\* exactly the indices found on its first m bars, for every supported kind.
C7_NoLookAhead ==
    (sig_pc = "prefix" /\ signal \in SUPPORTED_SIGNALS) =>
        prefix_indices = Below(indices, prefix_len)

\* C7 witness: bars were dropped from the end, the dropped bars differ from
\* the ones before them and carried a signal, and the bars kept carry one.
C7_Witness ==
    /\ sig_pc = "prefix"
    /\ signal = "volume_spike"
    /\ 1 <= prefix_len /\ prefix_len < Len(df.Close)
    /\ df.Volume[Len(df.Close)] # df.Volume[prefix_len]
    /\ prefix_indices # <<>>
    /\ Len(indices) > Len(prefix_indices)

\* C8: detection with a kind outside the supported set fails with an error
\* instead of returning an index list.
C8_UnknownKindFails ==
    (sig_pc = "detected" /\ signal \notin SUPPORTED_SIGNALS) => sig_raised

\* C9: for a supported kind the result is strictly increasing and every index
\* lies in warm-up(kind) .. len - 1; a series no longer than the warm-up gives
\* the empty list.
C9_IndexRange ==
    (sig_pc \in {"detected", "prefix"} /\ signal \in SUPPORTED_SIGNALS) =>
        /\ ~sig_raised
        /\ \A k \in 1..Len(indices) :
               /\ SpecWarmUp(signal) <= indices[k]
               /\ indices[k] < Len(df.Close)
        /\ \A k \in 1..(Len(indices) - 1) : indices[k] < indices[k + 1]
        /\ Len(df.Close) <= SpecWarmUp(signal) => indices = <<>>

\* C9 witness: the first index returned is the warm-up bar itself.
C9_Witness ==
    /\ sig_pc = "detected"
    /\ signal = "rsi_below_30"
    /\ Len(indices) >= 2
    /\ indices[1] = 14

\* The specification's volume test on bar k: more than twice the mean of the
\* 20 bars before it, compared as 20 * volume[k] against twice their sum.
SpecVolumeSpike(vol, k) ==
    k >= 20 /\ 20 * At(vol, k) > 2 * SumRange(vol, k - 20, k - 1)

\* C21: volume_spike returns bar i exactly when i >= 20 and volume[i] is more
\* than twice the mean of volume[i-20 .. i-1], for every volume series, one
\* whose 20 trailing bars all have zero volume included.
C21_VolumeSpikeExactly ==
    (sig_pc = "detected" /\ signal = "volume_spike") =>
        \A k \in 0..(Len(df.Volume) - 1) :
            (k \in Range(indices)) <=> SpecVolumeSpike(df.Volume, k)

\* SMA50 against SMA200 on bar k as the specification states it, on the sums
\* of the last 50 and the last 200 closes: side 1 is SMA50 > SMA200, side -1
\* is SMA50 < SMA200, and 0 is neither (equal, or bar k has no SMA200).
SpecSmaSide(cl, k) ==
    IF k < 199 THEN 0
    ELSE Sign(4 * SumRange(cl, k - 49, k) - SumRange(cl, k - 199, k))

\* The side a crossing of each kind ends on.
CrossSide(sig) == IF sig = "golden_cross" THEN 1 ELSE -1

\* C22: golden_cross and death_cross are edge-triggered: a returned bar i is
\* at least 200, has SMA50 strictly on the kind's side of SMA200, and did not
\* have it there on bar i - 1; so no two returned bars are consecutive, no bar
\* is returned for both kinds, and between two returned bars SMA50 left the
\* kind's side at least once.
C22_EdgeTriggered ==
    (sig_pc = "detected" /\ signal \in {"golden_cross", "death_cross"}) =>
        LET side == CrossSide(signal)
            found == Range(indices)
            other == IF signal = "golden_cross" THEN "death_cross" ELSE "golden_cross"
        IN /\ \A k \in found :
                  /\ k >= 200
                  /\ SpecSmaSide(df.Close, k) = side
                  /\ SpecSmaSide(df.Close, k - 1) # side
           /\ \A k \in found : k + 1 \notin found
           /\ found \cap Range(DetectSignals(df, other).indices) = {}
           /\ \A j \in found : \A k \in found :
                  j < k => \E m \in j..k : SpecSmaSide(df.Close, m) # side

\* C22 witness: a golden cross on bar 200 is followed by a bar on which SMA50
\* is still above SMA200 and which is not returned.
C22_Witness ==
    /\ sig_pc = "detected"
    /\ signal = "golden_cross"
    /\ indices = <<200>>
    /\ Len(df.Close) >= 202
    /\ SpecSmaSide(df.Close, 201) = 1

\* --------------------------------------------- claims: _compute_risk_metrics

\* C10: with series of different lengths, beta and alpha are computed on the
\* last min(len) elements of each series, so that the most recent observations
\* are paired.
C10_PairsMostRecent ==
    risk_pc = "done" =>
        LET n == MinLen(returns, benchmark_returns)
            rr == LastN(returns, n)
            bb == LastN(benchmark_returns, n)
        IN /\ r = rr
           /\ b = bb
           /\ beta = Beta(rr, bb)
           /\ alpha = Alpha(rr, bb, Beta(rr, bb))

\* ------------------------------------------ claims: compute_var / compute_cvar

\* C11: for a series with at least 2 distinct values and confidence 0.95 or
\* 0.99, compute_cvar(returns, confidence) is at most the historical_var of
\* compute_var(returns, confidence).
C11_CvarAtMostVar ==
    (/\ var_pc = "done"
     /\ confidence \in {95, 99}
     /\ Cardinality(Range(var_returns)) >= 2) =>
        cvar_val <= var_data.historical_var

\* C11 witness: at 99% on 100 observations or more the tail holds more than
\* the minimum, and the CVaR is strictly under the VaR.
C11_Witness ==
    /\ var_pc = "done"
    /\ confidence = 99
    /\ Len(var_returns) >= 100
    /\ Cardinality(Range(var_returns)) >= 2
    /\ cvar_val < var_data.historical_var

\* The elements of xs under v, and their number.
ElementsUnder(xs, v) == LET Less(x) == x < v IN SelectSeq(xs, Less)

C24_ParametricScalesWithConfidence ==
    (/\ var_pc = "done"
     /\ confidence = 99
     /\ Dispersion(var_returns) > 0) =>
        var_data.parametric_var < ComputeVar(var_returns, 95).parametric_var

\* ------------------------------- claims: the dict of _compute_risk_metrics

\* A field that is None or a finite number.
FiniteOrNone(f) == f.tag \in {"none", "num", "root"}

\* C13: for every non-empty asset series and every benchmark series,
\* _compute_risk_metrics does not raise and every field of its result is a
\* finite number or None, never NaN or an infinity.
C13_FieldsFiniteOrNone ==
    risk_pc = "done" =>
        /\ FiniteOrNone(metrics.sharpe_ratio)
        /\ FiniteOrNone(metrics.sortino_ratio)
        /\ FiniteOrNone(metrics.max_drawdown)
        /\ FiniteOrNone(metrics.beta)
        /\ FiniteOrNone(metrics.alpha)
        /\ FiniteOrNone(metrics.var_95.historical_var)
        /\ FiniteOrNone(metrics.var_95.parametric_var)
        /\ FiniteOrNone(metrics.cvar_95)
        /\ FiniteOrNone(metrics.annualized_return)
        /\ FiniteOrNone(metrics.annualized_volatility)
        /\ FiniteOrNone(metrics.skewness)
        /\ FiniteOrNone(metrics.kurtosis)

\* All elements of a series are equal.
IsConstant(xs) == \A j, k \in 1..Len(xs) : xs[j] = xs[k]

\* The metrics that depend on no denominator are numbers, and the dict has
\* every key.
OtherMetricsReturned ==
    /\ DOMAIN metrics =
           {"sharpe_ratio", "sortino_ratio", "max_drawdown", "beta", "alpha", "var_95",
            "cvar_95", "annualized_return", "annualized_volatility", "skewness", "kurtosis"}
    /\ metrics.annualized_return.tag = "num"
    /\ metrics.max_drawdown.tag = "num"
    /\ metrics.var_95.historical_var.tag = "num"
    /\ metrics.cvar_95.tag = "num"

C18_DrawdownInUnitRange ==
    dd_pc = "done" =>
        /\ dd_result.tag = "num"
        /\ 0 <= dd_result.val[1]
        /\ dd_result.val[1] <= 10000

\* The trade list whose pnl_pct are 100 times the returns xs (both are counts
\* of 1/10 of the whole).
TradesOfReturns(xs) == [k \in 1..Len(xs) |-> [pnl_pct |-> xs[k], days_held |-> 1]]

\* C30: for returns each above -1, the max_drawdown of the risk calculator is
\* the largest fractional decline of the compounded wealth curve from an
\* earlier peak, the starting value 1 included: the largest drawdown of the
\* equity curve of _compute_simulation_stats for trades with those returns,
\* as a fraction.
C30_DrawdownsAgree ==
    (dd_pc = "done" /\ \A k \in 1..Len(dd_returns) : dd_returns[k] > -10) =>
        LET ts == TradesOfReturns(dd_returns)
            eq == EquityCurve(ts, Len(ts))
            worst == CHOOSE k \in 1..Len(eq) :
                         \A j \in 1..Len(eq) :
                             FracLeq(PeakAt(eq, j) - eq[j], PeakAt(eq, j),
                                     PeakAt(eq, k) - eq[k], PeakAt(eq, k))
        IN dd_result = NumField(RoundScaled(PeakAt(eq, worst) - eq[worst],
                                            PeakAt(eq, worst), 4))

\* --------------------------------------- claims: _compute_forward_returns

\* C15: a close of 0 on a signal bar (or an entry bar, or the first bar)
\* never makes the engine raise: here, _compute_forward_returns completes.
C15_ZeroCloseNeverRaises == fwd_pc # "raised"

\* The signals whose bar i has i + h < len, in order.
SignalsThatFit(h) ==
    LET InRange(x) == x + h < Len(fwd_close) IN SelectSeq(signal_indices, InRange)

\* (close[i + h] - close[i]) / close[i], in 1/RetUnit.
SpecReturn(x, h) ==
    ((fwd_close[x + h + 1] - fwd_close[x + 1]) * RetUnit) \div fwd_close[x + 1]

\* C19: a signal on bar i contributes (close[i + h] - close[i]) / close[i] to
\* horizon h iff i + h < len, for each horizon on its own; so the 5d returns
\* are at least as many as the 20d ones, and those as the 60d ones.
C19_PerHorizonAvailability ==
    fwd_pc = "done" =>
        /\ \A h \in 1..3 :
               LET fit == SignalsThatFit(Horizons[h])
               IN returns_by_horizon[h] =
                      [k \in 1..Len(fit) |-> SpecReturn(fit[k], Horizons[h])]
        /\ Horizons = <<5, 20, 60>>
        /\ Len(returns_by_horizon[1]) >= Len(returns_by_horizon[2])
        /\ Len(returns_by_horizon[2]) >= Len(returns_by_horizon[3])

\* C19 witness: three signals, of which one fits every horizon, one fits 5d
\* and 20d only and one fits 5d only.
C19_Witness ==
    /\ fwd_pc = "done"
    /\ Len(returns_by_horizon[1]) = 3
    /\ Len(returns_by_horizon[2]) = 2
    /\ Len(returns_by_horizon[3]) = 1

\* The last bar a signal on bar x is followed to.
SpecLastBar(x) == IF x + 60 < Len(fwd_close) - 1 THEN x + 60 ELSE Len(fwd_close) - 1

\* C20: total_signals is the number of signal indices; win_rate_h and
\* avg_return_h are None iff no signal has i + h < len; best_trade and
\* worst_trade are None iff no signal has a later bar; profit_factor is None
\* iff no return to min(i + 60, last bar) is negative; an empty index set
\* gives total_signals = 0 and every statistic None.
C20_NoneIffNoContribution ==
    fwd_pc = "done" =>
        LET n == Len(fwd_close)
            sigs == Range(signal_indices)
            later == {x \in sigs : x < n - 1}
            losing == {x \in later : fwd_close[SpecLastBar(x) + 1] < fwd_close[x + 1]}
            stats == <<forward.win_rate_5d, forward.avg_return_5d, forward.win_rate_20d,
                       forward.avg_return_20d, forward.win_rate_60d, forward.avg_return_60d,
                       forward.best_trade, forward.worst_trade, forward.profit_factor>>
        IN /\ forward.total_signals = Len(signal_indices)
           /\ (forward.win_rate_5d = None) <=> (\A x \in sigs : ~(x + 5 < n))
           /\ (forward.avg_return_5d = None) <=> (\A x \in sigs : ~(x + 5 < n))
           /\ (forward.win_rate_20d = None) <=> (\A x \in sigs : ~(x + 20 < n))
           /\ (forward.avg_return_20d = None) <=> (\A x \in sigs : ~(x + 20 < n))
           /\ (forward.win_rate_60d = None) <=> (\A x \in sigs : ~(x + 60 < n))
           /\ (forward.avg_return_60d = None) <=> (\A x \in sigs : ~(x + 60 < n))
           /\ (forward.best_trade = None) <=> (later = {})
           /\ (forward.worst_trade = None) <=> (later = {})
           /\ (forward.profit_factor = None) <=> (losing = {})
           /\ signal_indices = <<>> =>
                  /\ forward.total_signals = 0
                  /\ \A k \in 1..9 : stats[k] = None

\* C20 witness: two signals or more on a series too short for 60d: the 60d
\* statistics are None, the 5d ones are not, and with no losing trade the
\* profit factor is None next to a best trade.
C20_Witness ==
    /\ fwd_pc = "done"
    /\ forward.total_signals >= 2
    /\ forward.win_rate_60d = None
    /\ forward.win_rate_5d # None
    /\ forward.best_trade # None
    /\ forward.profit_factor = None

\* -------------------------------------- claims: _compute_simulation_stats

\* The fields of the statistics other than total_trades.
OtherStatFields ==
    {"win_rate", "avg_pnl_pct", "max_drawdown_pct", "sharpe_ratio",
     "strategy_return_pct", "buy_hold_return_pct", "vs_buy_and_hold"}

\* C16: with an empty trade list, total_trades is 0 and every other field of
\* the statistics is present, with value None or zero.
C16_EmptyTradesAllFields ==
    (stat_pc = "done" /\ stat_trades = <<>>) =>
        /\ sim_stats.total_trades = NumField(0)
        /\ OtherStatFields \subseteq DOMAIN sim_stats
        /\ \A f \in OtherStatFields \cap DOMAIN sim_stats :
               sim_stats[f] \in {NoneField, NumField(0)}

\* C17: for trades with every pnl_pct > -100, the equity curve starts at 100
\* and compounds each pnl_pct in order, and 0 <= max_drawdown_pct <= 100.
C17_EquityCurveAndDrawdown ==
    (/\ stat_pc \in {"done", "raised"}
     /\ stat_trades # <<>>
     /\ \A k \in 1..Len(stat_trades) : stat_trades[k].pnl_pct > -10) =>
        LET n == Len(stat_trades) IN
        /\ Len(equity) = n + 1
        /\ equity[1] = 100 * Pow(10, n)
        /\ \A k \in 1..n : 10 * equity[k + 1] = equity[k] * (10 + stat_trades[k].pnl_pct)
        /\ stat_pc = "done" =>
               /\ sim_stats.max_drawdown_pct.tag = "num"
               /\ 0 <= sim_stats.max_drawdown_pct.val[1]
               /\ sim_stats.max_drawdown_pct.val[1] <= 1000000

\* C17 witness: a gain of 100%, then losses of 90% and 50%: the curve is
\* 100, 200, 20, 10 and the drawdown from the peak is 95%.
C17_Witness ==
    /\ stat_pc = "done"
    /\ Pnls(stat_trades) = <<10, -9, -5>>
    /\ equity = <<100000, 200000, 20000, 10000>>
    /\ sim_stats.max_drawdown_pct = NumField(950000)

\* ------------------------------------------- claims: the sharpe_ratio field

\* C25: sharpe_ratio is None whenever there are fewer than 2 trades or all
\* trades have the same pnl_pct; otherwise it is the finite number
\* mean / std * sqrt(252 / mean(days_held)), the mean of days_held being 1 or
\* more.
C25_SharpeNoneOrAnnualised ==
    sharpe_pc = "done" =>
        LET n == Len(sharpe_trades)
            pnls == Pnls(sharpe_trades)
            S == SumSeq(pnls)
            held == SumSeq(DaysHeld(sharpe_trades))
        IN IF n < 2 \/ Cardinality(Range(pnls)) = 1
           THEN sharpe_ratio = NoneField
           ELSE /\ held >= n
                /\ sharpe_ratio = RootField(Sign(S), 252 * n * S * S, Dispersion(pnls) * held)

\* ------------------------------------------------------ claims: FileCache

\* C26: for any sequence of set, get and invalidate on a key, get returns the
\* data of the most recent set while its age is at most the TTL of the
\* category; once a get found it older, and after an invalidate, get returns
\* None and no file is left; content that cannot be parsed is answered with
\* None and removed.
C26_GetAfterSetExpiryInvalidate ==
    cache_op.op = "get" =>
        LET last == recent[cache_op.key]
        IN /\ ~cache_op.raised
           /\ IF last.what = "set"
              THEN cache_op.ret = last.data
              ELSE /\ cache_op.ret = PyNone
                   /\ cache_files[cache_op.key] = NoFile

\* ------------------------------------------------- claims: the tool handlers

\* C23: get_risk_metrics reports an error for lack of data, without running
\* the calculator or writing the cache, whenever the asset and the benchmark
\* have fewer than 10 returns in common, the case of an asset with enough
\* history and a benchmark without included.
C23_InsufficientOverlap ==
    (/\ tool_call.args.tool = "get_risk_metrics"
     /\ tool_call.history_calls > 0
     /\ Min({tool_call.ticker_returns, tool_call.benchmark_returns}) < 10) =>
        /\ tool_call.response \in {ErrorResponse("insufficient"), ErrorResponse("no_data")}
        /\ ~tool_call.computed
        /\ ~tool_call.stored

\* A call that computed a result and answered with it left the result in the
\* file of its key, under its category, stamped with the time of the call.
SuccessIsStored ==
    (tool_call.computed /\ ~IsError(tool_call.response)) =>
        /\ tool_call.stored
        /\ cache_files[CacheKeyOf[tool_call.args]]
               = Entry(tool_call.at, Category(tool_call.args), tool_call.response)

\* A call whose arguments had a result stored at most one TTL ago answers
\* with that result, asks for no price history and computes nothing.
RepeatIsServed ==
    \A a \in ToolCalls :
        (/\ tool_call'.number = tool_call.number + 1
         /\ tool_call'.args = a
         /\ successes[a] # NoSuccess
         /\ clock - successes[a].at <= CACHE_TTL(Category(a))) =>
            /\ tool_call'.response = successes[a].result
            /\ tool_call'.history_calls = 0
            /\ ~tool_call'.computed
            /\ ~tool_call'.stored

OnlyResultsCached ==
    \A a \in ToolCalls :
        LET f == cache_files[CacheKeyOf[a]]
        IN f # NoFile =>
              /\ ~IsError(f.data)
              /\ \E c \in ToolCalls :
                    /\ CacheKeyOf[c] = CacheKeyOf[a]
                    /\ successes[c] # NoSuccess
                    /\ f = Entry(successes[c].at, Category(c), successes[c].result)

\* A call with an unsupported signal kind is answered before cache.get and
\* before any yf.get_history.
RejectedBeforeLookup ==
    (/\ tool_call.args # NoArgs
     /\ \/ tool_call.args.signal \notin SUPPORTED_SIGNALS \cup {""}
        \/ tool_call.args.exit_signal \notin SUPPORTED_SIGNALS \cup {""}) =>
        /\ tool_call.response = ErrorResponse("unsupported")
        /\ ~tool_call.looked_up
        /\ tool_call.history_calls = 0
        /\ ~tool_call.computed

\* A step that is a call answered with an error.
ErrorStep ==
    /\ tool_call'.number = tool_call.number + 1
    /\ IsError(tool_call'.response)

ErrorKeepsCache == ErrorStep => cache_files' = cache_files

\* An error writes under no call's key: the file of each is as it was, or
\* removed because cache.get found it expired; a rejected call touches nothing.
ErrorWritesNoResult ==
    ErrorStep =>
        /\ \A a \in ToolCalls :
              cache_files'[CacheKeyOf[a]] \in {cache_files[CacheKeyOf[a]], NoFile}
        /\ ~tool_call'.looked_up => cache_files' = cache_files

\* C28: no error response is ever cached: an entry under a call's key exists
\* only if an earlier call with that key computed a result; an unsupported
\* signal kind is rejected before any cache lookup or price-history request;
\* and a call answered with an error (empty price history, raised exception)
\* leaves the cache unchanged.
C28_ErrorLeavesCacheUnchanged ==
    []OnlyResultsCached /\ []RejectedBeforeLookup /\ [][ErrorKeepsCache]_vars

\* C28, amended: as above, but a call answered with an error leaves every
\* result entry as it was or removes it when expired, and may have cached the
\* price history it fetched.
C28_ErrorWritesNoResult ==
    []OnlyResultsCached /\ []RejectedBeforeLookup /\ [][ErrorWritesNoResult]_vars

\* C28 witness: a call that raised in the calculation answered with an error;
\* the price history it fetched is cached, and nothing under its own key.
C28_Witness ==
    /\ tool_call.number > 0
    /\ tool_call.response = ErrorResponse("exception")
    /\ tool_call.computed
    /\ cache_files[HistoryKeys[tool_call.args.ticker][HistoryPeriod(tool_call.args)]] # NoFile
    /\ cache_files[CacheKeyOf[tool_call.args]] = NoFile

\* C29: two get_strategy_simulation calls that differ in ticker, entry_signal,
\* exit_signal, stop_loss_pct or take_profit_pct (unset against set included)
\* never have the same cache key, and a simulation result that is returned
\* is the result of the configuration of the call.
C29_KeyPerConfiguration ==
    (/\ tool_call.args.tool = "get_strategy_simulation"
     /\ tool_call.number > 0
     /\ ~IsError(tool_call.response)) =>
        /\ \A c \in ToolCalls :
              (c.tool = "get_strategy_simulation" /\ c # tool_call.args) =>
                  CacheKeyOf[c] # CacheKeyOf[tool_call.args]
        /\ tool_call.response = JsonRoundTrip(ResultOf(tool_call.args, Bars(0, FALSE)))

====
